----------------------- MODULE NotificationQueueProofs -----------------------
(***************************************************************************)
(* Proofs about NotificationQueue, for any set of rows and workers, any    *)
(* batch size, any number of attempts and crashes.                         *)
(*                                                                         *)
(* The database forgets who claimed a row, so the invariant has to say     *)
(* what a claim in a worker's memory still means: the row is "sending",    *)
(* its attempt_number is the one the claim returned, and it has been       *)
(* delivered less often than attempted until the worker sends it.          *)
(***************************************************************************)
EXTENDS NotificationQueue, FiniteSetTheorems, TLAPS

\* A claimed row is as the claim left it, up to what its worker did to it.
HeldRow(w, n) ==
    /\ claim[w][n] = attempt[n]
    /\ \/ status[n] = "sending"
       \/ status[n] = "sent" /\ n = cur[w] /\ pc[w] = "audit"
    /\ \/ delivered[n] < attempt[n]
       \/ n = cur[w] /\ pc[w] \in {"mark", "audit", "fail"}

\* Where the worker is says what became of the row in its hand.
InHand(w) ==
    /\ pc[w] # "idle" => cur[w] \in Held(w)
    /\ pc[w] \in {"mark", "audit"} => audited[cur[w]] < delivered[cur[w]]
    /\ pc[w] = "send" /\ cur[w] \notin Webhooks => late[cur[w]] = 0

ClaimInv ==
    /\ ClaimExclusive
    /\ \A w \in Workers : InHand(w) /\ \A n \in Held(w) : HeldRow(w, n)

\* What the columns and the history of one row have to do with each other.
Row(n) ==
    /\ attempt[n] \in 1 .. MaxAttempts
    /\ delivered[n] <= attempt[n]
    /\ status[n] \in {"absent", "queued", "retrying"} => delivered[n] < attempt[n]
    /\ audited[n] <= delivered[n]
    /\ status[n] = "dead" => attempt[n] = MaxAttempts
    /\ status[n] = "sent" => delivered[n] > 0 \/ (handled /\ n \notin Webhooks)
    /\ late[n] > 0 => handled
    /\ n \notin Webhooks => late[n] <= 1

RowInv == \A n \in Notifs : Row(n)

QueueInv == TypeOK /\ ClaimInv /\ RowInv

-----------------------------------------------------------------------------
(***************************************************************************)
(* Type correctness.                                                       *)
(***************************************************************************)
USE DEF Held

LEMMA EmptyBatch == DOMAIN <<>> = {}
OBVIOUS

LEMMA InitType == Init => TypeOK
<1>. SUFFICES ASSUME Init PROVE TypeOK
  OBVIOUS
<1>1. \A w \in Workers : Held(w) = {}
  BY EmptyBatch DEF Init
<1>. QED  BY <1>1, QueueAssumption DEF Init, TypeOK, Statuses, Steps

\* What the steps of the environment change.
LEMMA RowStepType ==
    ASSUME TypeOK, NEW n \in Notifs, Enqueue(n) \/ BackoffElapses(n) \/ Handle
    PROVE  TypeOK'
BY DEF TypeOK, Enqueue, BackoffElapses, Handle, work, rows, history, Statuses

\* The part of TypeOK about the memory of the workers.
WorkType ==
    /\ DOMAIN claim = Workers
    /\ \A v \in Workers : /\ Held(v) \subseteq Notifs
                          /\ \A n \in Held(v) : claim[v][n] \in Nat
    /\ cur \in [Workers -> Notifs \cup {None}]
    /\ pc \in [Workers -> Steps]

\* The other variables; TypeOK is the two together.
RestType ==
    /\ status \in [Notifs -> Statuses]
    /\ attempt \in [Notifs -> Nat]
    /\ due \in [Notifs -> BOOLEAN]
    /\ handled \in BOOLEAN
    /\ delivered \in [Notifs -> Nat]
    /\ late \in [Notifs -> Nat]
    /\ audited \in [Notifs -> Nat]
    /\ faults \in Nat

LEMMA TypeParts == WorkType' /\ RestType' => TypeOK'
BY DEF WorkType, RestType, TypeOK

\* PutDown keeps the types of a worker's memory.
LEMMA PutDownType ==
    ASSUME TypeOK, NEW w \in Workers, PutDown(w)
    PROVE  WorkType'
<1>1. \A v \in Workers : claim'[v] = IF v = w THEN [n \in StillToDo(w) |-> claim[w][n]] ELSE claim[v]
  BY DEF TypeOK, PutDown
<1>2. Held(w)' = StillToDo(w) /\ \A v \in Workers \ {w} : claim'[v] = claim[v]
  BY <1>1
<1>. QED  BY <1>1, <1>2 DEF TypeOK, WorkType, PutDown, StillToDo, Steps

\* So does a worker that forgets its batch.
LEMMA ForgetType ==
    ASSUME TypeOK, NEW w \in Workers, Forget(w)
    PROVE  WorkType' /\ Held(w)' = {}
<1>1. claim'[w] = <<>> /\ \A v \in Workers \ {w} : claim'[v] = claim[v]
  BY DEF TypeOK, Forget
<1>2. Held(w)' = {}
  BY <1>1, EmptyBatch
<1>. QED  BY <1>1, <1>2 DEF TypeOK, WorkType, Forget, Steps

LEMMA ClaimType ==
    ASSUME TypeOK, NEW w \in Workers, Claim(w)
    PROVE  TypeOK'
<1>1. PICK S \in Batches \ {{}} :
         /\ status' = [n \in Notifs |-> IF n \in S THEN "sending" ELSE status[n]]
         /\ claim' = [claim EXCEPT ![w] = [n \in S |-> attempt[n]]]
  BY DEF Claim
<1>2. S \subseteq Notifs
  BY DEF Batches
<1>3. claim'[w] = [n \in S |-> attempt[n]] /\ \A v \in Workers \ {w} : claim'[v] = claim[v]
  BY <1>1 DEF TypeOK
<1>4. \A v \in Workers : Held(v)' \subseteq Notifs /\ \A n \in Held(v)' : claim'[v][n] \in Nat
  BY <1>2, <1>3 DEF TypeOK
<1>. QED  BY <1>1, <1>4 DEF TypeOK, Claim, history, Statuses

\* A row in hand is a row.
LEMMA InHandType ==
    ASSUME TypeOK, ClaimInv, NEW w \in Workers, pc[w] # "idle"
    PROVE  cur[w] \in Held(w) /\ cur[w] \in Notifs /\ claim[w][cur[w]] \in Nat
BY DEF ClaimInv, InHand, TypeOK

LEMMA WorkerStepType ==
    ASSUME TypeOK, ClaimInv, NEW w \in Workers,
           \/ Take(w) \/ Look(w) \/ Send(w) \/ MarkSent(w) \/ Audit(w) \/ Fail(w)
           \/ Crash(w)
    PROVE  TypeOK'
<1>1. CASE Take(w)
  BY <1>1 DEF Take, TypeOK, rows, history, Steps
<1>2. CASE Look(w)
  <2>. cur[w] \in Notifs
    BY <1>2, InHandType DEF Look
  <2>1. CASE NotNeeded(cur[w])
    <3>1. RestType'
      BY <1>2, <2>1 DEF Look, TypeOK, RestType, Mark, history, Statuses
    <3>. QED  BY <1>2, <2>1, <3>1, PutDownType, TypeParts DEF Look
  <2>2. CASE ~NotNeeded(cur[w])
    BY <1>2, <2>2 DEF Look, TypeOK, Goto, history, Steps
  <2>. QED  BY <2>1, <2>2
<1>3. CASE Send(w)
  <2>. cur[w] \in Notifs
    BY <1>3, InHandType DEF Send
  <2>1. PICK taken \in BOOLEAN, step \in {"mark"} \cup AfterError :
          /\ delivered' = IF taken THEN [delivered EXCEPT ![cur[w]] = @ + 1] ELSE delivered
          /\ late' = IF taken /\ handled THEN [late EXCEPT ![cur[w]] = @ + 1] ELSE late
          /\ Goto(w, step)
    BY <1>3 DEF Send
  <2>2. delivered' \in [Notifs -> Nat] /\ late' \in [Notifs -> Nat]
    BY <2>1 DEF TypeOK
  <2>3. pc' \in [Workers -> Steps]
    BY <2>1 DEF Goto, AfterError, Steps, TypeOK
  <2>. QED  BY <1>3, <2>2, <2>3 DEF Send, TypeOK, rows
<1>4. CASE MarkSent(w)
  BY <1>4 DEF MarkSent, Mark, Goto, TypeOK, history, Statuses, Steps
<1>5. CASE Audit(w)
  <2>. cur[w] \in Notifs
    BY <1>5, InHandType DEF Audit
  <2>1. audited' \in [Notifs -> Nat]
    BY <1>5 DEF Audit, TypeOK
  <2>2. UNCHANGED <<status, attempt, due, handled, delivered, late, faults>>
    BY <1>5 DEF Audit, rows, history
  <2>3. RestType'
    BY <2>1, <2>2 DEF TypeOK, RestType
  <2>. QED  BY <1>5, <2>3, PutDownType, TypeParts DEF Audit
<1>6. CASE Fail(w)
  <2>. cur[w] \in Notifs /\ claim[w][cur[w]] \in Nat
    BY <1>6, InHandType DEF Fail
  <2>1. status' \in [Notifs -> Statuses]
    BY <1>6 DEF Fail, Mark, TypeOK, Statuses
  <2>2. attempt' \in [Notifs -> Nat] /\ due' \in [Notifs -> BOOLEAN]
    <3>1. CASE LastAttempt(w)
      BY <1>6, <3>1 DEF Fail, TypeOK
    <3>2. CASE ~LastAttempt(w)
      <4>1. /\ attempt' = [attempt EXCEPT ![cur[w]] = claim[w][cur[w]] + 1]
            /\ due' = [due EXCEPT ![cur[w]] = FALSE]
        BY <1>6, <3>2 DEF Fail
      <4>. QED  BY <4>1 DEF TypeOK
    <3>. QED  BY <3>1, <3>2
  <2>3. UNCHANGED <<handled, delivered, late, audited, faults>>
    BY <1>6 DEF Fail, history
  <2>4. RestType'
    BY <2>1, <2>2, <2>3 DEF TypeOK, RestType
  <2>. QED  BY <1>6, <2>4, PutDownType, TypeParts DEF Fail
<1>7. CASE Crash(w)
  <2>1. RestType'
    BY <1>7 DEF Crash, Fault, TypeOK, RestType, rows, history
  <2>. QED  BY <1>7, <2>1, ForgetType, TypeParts DEF Crash
<1>. QED  BY <1>1, <1>2, <1>3, <1>4, <1>5, <1>6, <1>7

-----------------------------------------------------------------------------
(***************************************************************************)
(* The invariant.                                                          *)
(***************************************************************************)
LEMMA QueueInvInit == Init => QueueInv
<1>. SUFFICES ASSUME Init PROVE QueueInv
  OBVIOUS
<1>1. \A w \in Workers : Held(w) = {}
  BY EmptyBatch DEF Init
<1>2. ClaimInv
  BY <1>1 DEF Init, ClaimInv, ClaimExclusive, InHand
<1>3. RowInv
  BY QueueAssumption DEF Init, RowInv, Row
<1>. QED  BY <1>2, <1>3, InitType DEF QueueInv

\* A worker that touches the row in its hand only has to restore the invariant
\* for that row: nobody else holds it.
LEMMA StepInHand ==
    ASSUME QueueInv, NEW w \in Workers, pc[w] # "idle",
           NEW m \in Notifs, m = cur[w],
           handled' = handled,
           \A n \in Notifs \ {m} :
               /\ status'[n] = status[n] /\ attempt'[n] = attempt[n]
               /\ delivered'[n] = delivered[n] /\ late'[n] = late[n]
               /\ audited'[n] = audited[n],
           \A v \in Workers \ {w} :
               claim'[v] = claim[v] /\ cur'[v] = cur[v] /\ pc'[v] = pc[v],
           \A n \in Held(w)' : n \in Held(w) /\ claim'[w][n] = claim[w][n],
           Row(m)',
           InHand(w)',
           m \in Held(w)' => HeldRow(w, m)'
    PROVE  ClaimInv' /\ RowInv'
<1>1. cur[w] \in Held(w) /\ cur[w] \in Notifs
  BY InHandType DEF QueueInv
<1>2. ASSUME NEW v \in Workers \ {w}
      PROVE  /\ cur[w] \notin Held(v) /\ Held(v)' = Held(v)
             /\ pc[v] # "idle" => cur[v] \in Held(v) /\ cur[v] # cur[w] /\ cur[v] \in Notifs
  BY <1>1 DEF QueueInv, ClaimInv, ClaimExclusive, InHand, TypeOK
<1>3. ClaimExclusive'
  BY <1>2 DEF QueueInv, ClaimInv, ClaimExclusive
<1>4. ASSUME NEW v \in Workers
      PROVE  InHand(v)'
  <2>1. CASE v = w
    BY <2>1
  <2>2. CASE v # w
    <3>1. InHand(v)
      BY DEF QueueInv, ClaimInv
    <3>2. claim'[v] = claim[v] /\ cur'[v] = cur[v] /\ pc'[v] = pc[v]
      BY <2>2
    <3>3. CASE pc[v] = "idle"
      BY <3>2, <3>3 DEF InHand
    <3>4. CASE pc[v] # "idle"
      <4>1. /\ delivered'[cur[v]] = delivered[cur[v]] /\ late'[cur[v]] = late[cur[v]]
            /\ audited'[cur[v]] = audited[cur[v]]
        BY <1>2, <2>2, <3>4
      <4>. QED  BY <3>1, <3>2, <4>1 DEF InHand
    <3>. QED  BY <3>3, <3>4
  <2>. QED  BY <2>1, <2>2
<1>5. ASSUME NEW v \in Workers, NEW n \in Held(v)'
      PROVE  HeldRow(v, n)'
  <2>1. CASE v = w /\ n = cur[w]
    BY <1>5, <2>1
  <2>2. CASE v = w /\ n # cur[w]
    <3>1. n \in Held(w) /\ n \in Notifs /\ HeldRow(w, n)
      BY <1>5, <2>2 DEF QueueInv, ClaimInv, TypeOK
    <3>. QED  BY <1>5, <2>2, <3>1 DEF HeldRow
  <2>3. CASE v # w
    <3>1. n \in Held(v) /\ n \in Notifs /\ n # m /\ HeldRow(v, n)
      BY <1>2, <1>5, <2>3 DEF QueueInv, ClaimInv, TypeOK
    <3>. QED  BY <2>3, <3>1 DEF HeldRow
  <2>. QED  BY <2>1, <2>2, <2>3
<1>6. RowInv'
  <2>. SUFFICES ASSUME NEW n \in Notifs PROVE Row(n)'
    BY DEF RowInv
  <2>1. CASE n = cur[w]
    BY <2>1
  <2>2. CASE n # cur[w]
    <3>1. Row(n)
      BY DEF QueueInv, RowInv
    <3>2. /\ status'[n] = status[n] /\ attempt'[n] = attempt[n]
          /\ delivered'[n] = delivered[n] /\ late'[n] = late[n]
          /\ audited'[n] = audited[n]
      BY <2>2
    <3>. QED  BY <3>1, <3>2 DEF Row
  <2>. QED  BY <2>1, <2>2
<1>. QED  BY <1>3, <1>4, <1>5, <1>6 DEF ClaimInv

-----------------------------------------------------------------------------
(***************************************************************************)
(* One lemma for each step.                                                *)
(***************************************************************************)
LEMMA EnvironmentInv ==
    ASSUME QueueInv, NEW n \in Notifs, Enqueue(n) \/ BackoffElapses(n) \/ Handle
    PROVE  ClaimInv' /\ RowInv'
<1>1. UNCHANGED <<attempt, claim, cur, pc, delivered, late, audited>>
  BY DEF Enqueue, BackoffElapses, Handle, rows, work, history
<1>2. \A m \in Notifs :
        \/ status'[m] = status[m]
        \/ status[m] = "absent" /\ status'[m] = "queued"
  <2>1. CASE Enqueue(n)
    BY <2>1 DEF Enqueue, work, history, QueueInv, TypeOK
  <2>2. CASE BackoffElapses(n) \/ Handle
    BY <2>2 DEF BackoffElapses, Handle, rows, work, history
  <2>. QED  BY <2>1, <2>2
<1>3. handled => handled'
  BY DEF Enqueue, BackoffElapses, Handle
<1>4. ClaimInv'
  <2>1. ASSUME NEW w \in Workers, NEW m \in Held(w)
        PROVE  HeldRow(w, m)'
    BY <1>1, <1>2 DEF QueueInv, ClaimInv, HeldRow, TypeOK
  <2>. QED  BY <1>1, <2>1 DEF QueueInv, ClaimInv, ClaimExclusive, InHand
<1>5. RowInv'
  <2>. SUFFICES ASSUME NEW m \in Notifs PROVE Row(m)'
    BY DEF RowInv
  <2>1. Row(m)
    BY DEF QueueInv, RowInv
  <2>. QED  BY <1>1, <1>2, <1>3, <2>1 DEF Row
<1>. QED  BY <1>4, <1>5

LEMMA ClaimKeepsInv ==
    ASSUME QueueInv, NEW w \in Workers, Claim(w)
    PROVE  ClaimInv' /\ RowInv'
<1>1. PICK S \in Batches \ {{}} :
         /\ status' = [n \in Notifs |-> IF n \in S THEN "sending" ELSE status[n]]
         /\ claim' = [claim EXCEPT ![w] = [n \in S |-> attempt[n]]]
  BY DEF Claim
<1>2. \A n \in S : n \in Notifs /\ status[n] \in {"queued", "retrying"}
  BY DEF Batches, Claimable
<1>3. Held(w)' = S /\ \A n \in S : claim'[w][n] = attempt[n]
  BY <1>1 DEF QueueInv, TypeOK
<1>4. \A v \in Workers \ {w} : claim'[v] = claim[v]
  BY <1>1 DEF QueueInv, TypeOK
<1>5. /\ UNCHANGED <<attempt, handled, cur, pc, delivered, late, audited>>
      /\ pc[w] = "idle"
  BY DEF Claim, history
<1>6. \A v \in Workers \ {w} : \A n \in Held(v) : n \in Notifs /\ n \notin S
  BY <1>2 DEF QueueInv, ClaimInv, HeldRow, TypeOK
<1>7. \A n \in S : Row(n) /\ delivered[n] < attempt[n]
  BY <1>2 DEF QueueInv, RowInv, Row
<1>8. ClaimExclusive'
  BY <1>3, <1>4, <1>6 DEF QueueInv, ClaimInv, ClaimExclusive
<1>9. ASSUME NEW v \in Workers PROVE InHand(v)'
  BY <1>3, <1>4, <1>5 DEF QueueInv, ClaimInv, InHand
<1>10. ASSUME NEW v \in Workers, NEW n \in Held(v)' PROVE HeldRow(v, n)'
  <2>1. CASE v = w
    BY <1>1, <1>2, <1>3, <1>5, <1>7, <1>10, <2>1 DEF HeldRow
  <2>2. CASE v # w
    <3>1. n \in Held(v) /\ HeldRow(v, n)
      BY <1>4, <1>10, <2>2 DEF QueueInv, ClaimInv
    <3>. QED  BY <1>1, <1>4, <1>5, <1>6, <2>2, <3>1 DEF HeldRow
  <2>. QED  BY <2>1, <2>2
<1>11. RowInv'
  <2>. SUFFICES ASSUME NEW n \in Notifs PROVE Row(n)'
    BY DEF RowInv
  <2>1. Row(n) /\ status'[n] = IF n \in S THEN "sending" ELSE status[n]
    BY <1>1 DEF QueueInv, RowInv
  <2>. QED  BY <1>5, <2>1 DEF Row
<1>. QED  BY <1>8, <1>9, <1>10, <1>11 DEF ClaimInv

LEMMA TakeKeepsInv ==
    ASSUME QueueInv, NEW w \in Workers, Take(w)
    PROVE  ClaimInv' /\ RowInv'
<1>1. PICK m \in Held(w) : cur' = [cur EXCEPT ![w] = m]
  BY DEF Take
<1>2. /\ UNCHANGED <<status, attempt, handled, claim, delivered, late, audited>>
      /\ pc[w] = "idle" /\ pc'[w] = "look" /\ cur'[w] = m
      /\ \A v \in Workers \ {w} : pc'[v] = pc[v] /\ cur'[v] = cur[v]
  BY <1>1 DEF Take, rows, history, QueueInv, TypeOK
<1>3. ASSUME NEW v \in Workers PROVE InHand(v)'
  BY <1>2 DEF QueueInv, ClaimInv, InHand
<1>4. ASSUME NEW v \in Workers, NEW n \in Held(v) PROVE HeldRow(v, n)'
  BY <1>2 DEF QueueInv, ClaimInv, HeldRow
<1>5. RowInv'
  BY <1>2 DEF QueueInv, RowInv, Row
<1>. QED  BY <1>2, <1>3, <1>4, <1>5 DEF QueueInv, ClaimInv, ClaimExclusive

LEMMA CrashKeepsInv ==
    ASSUME QueueInv, NEW w \in Workers, Crash(w)
    PROVE  ClaimInv' /\ RowInv'
<1>1. Held(w)' = {} /\ pc'[w] = "idle"
  BY ForgetType DEF Crash, Forget, QueueInv, TypeOK
<1>2. /\ UNCHANGED <<status, attempt, handled, delivered, late, audited>>
      /\ \A v \in Workers \ {w} :
           claim'[v] = claim[v] /\ cur'[v] = cur[v] /\ pc'[v] = pc[v]
  BY DEF Crash, Forget, rows, history, QueueInv, TypeOK
<1>3. ASSUME NEW v \in Workers PROVE InHand(v)'
  BY <1>1, <1>2 DEF QueueInv, ClaimInv, InHand
<1>4. ASSUME NEW v \in Workers, NEW n \in Held(v)' PROVE HeldRow(v, n)'
  BY <1>1, <1>2, <1>4 DEF QueueInv, ClaimInv, HeldRow
<1>5. ClaimExclusive'
  BY <1>1, <1>2 DEF QueueInv, ClaimInv, ClaimExclusive
<1>6. RowInv'
  BY <1>2 DEF QueueInv, RowInv, Row
<1>. QED  BY <1>3, <1>4, <1>5, <1>6 DEF ClaimInv

\* What is known about a row in hand.
LEMMA HandFacts ==
    ASSUME QueueInv, NEW w \in Workers, pc[w] # "idle"
    PROVE  /\ cur[w] \in Held(w) /\ cur[w] \in Notifs
           /\ HeldRow(w, cur[w]) /\ Row(cur[w]) /\ InHand(w)
BY InHandType DEF QueueInv, ClaimInv, RowInv

LEMMA PutDownEffect ==
    ASSUME QueueInv, NEW w \in Workers, PutDown(w)
    PROVE  /\ pc'[w] = "idle" /\ InHand(w)'
           /\ cur[w] \notin Held(w)'
           /\ \A n \in Held(w)' : n \in Held(w) /\ claim'[w][n] = claim[w][n]
           /\ \A v \in Workers \ {w} :
                claim'[v] = claim[v] /\ cur'[v] = cur[v] /\ pc'[v] = pc[v]
<1>1. claim'[w] = [n \in StillToDo(w) |-> claim[w][n]]
  BY DEF PutDown, QueueInv, TypeOK
<1>2. pc'[w] = "idle"
  BY DEF PutDown, QueueInv, TypeOK
<1>3. \A v \in Workers \ {w} :
        claim'[v] = claim[v] /\ cur'[v] = cur[v] /\ pc'[v] = pc[v]
  BY DEF PutDown, QueueInv, TypeOK
<1>. QED  BY <1>1, <1>2, <1>3 DEF StillToDo, InHand

LEMMA MarkEffect ==
    ASSUME QueueInv, NEW w \in Workers, cur[w] \in Notifs, NEW s, Mark(w, s)
    PROVE  /\ status'[cur[w]] = s
           /\ \A n \in Notifs \ {cur[w]} : status'[n] = status[n]
BY DEF Mark, QueueInv, TypeOK

LEMMA GotoEffect ==
    ASSUME QueueInv, NEW w \in Workers, NEW step, Goto(w, step)
    PROVE  pc'[w] = step /\ \A v \in Workers \ {w} : pc'[v] = pc[v]
BY DEF Goto, QueueInv, TypeOK

LEMMA LookKeepsInv ==
    ASSUME QueueInv, NEW w \in Workers, Look(w)
    PROVE  ClaimInv' /\ RowInv'
<1>0. pc[w] = "look"
  BY DEF Look
<1>1. PICK m \in Notifs : m = cur[w]
  BY <1>0, HandFacts
<1>2. m \in Held(w) /\ HeldRow(w, m) /\ Row(m) /\ InHand(w)
  BY <1>0, <1>1, HandFacts
<1>3. UNCHANGED <<attempt, handled, delivered, late, audited>>
  BY DEF Look, history
<1>4. CASE NotNeeded(m)
  <2>1. Mark(w, "sent") /\ PutDown(w)
    BY <1>1, <1>4 DEF Look
  <2>2. status'[m] = "sent" /\ \A n \in Notifs \ {m} : status'[n] = status[n]
    BY <1>1, <2>1, MarkEffect
  <2>3. Row(m)'
    BY <1>0, <1>1, <1>2, <1>3, <1>4, <2>2 DEF Row, NotNeeded
  <2>. QED  BY <1>0, <1>1, <1>2, <1>3, <2>1, <2>2, <2>3, PutDownEffect, StepInHand
<1>5. CASE ~NotNeeded(m)
  <2>1. Goto(w, "send") /\ UNCHANGED <<status, claim, cur>>
    BY <1>1, <1>5 DEF Look
  <2>2. pc'[w] = "send" /\ \A v \in Workers \ {w} : pc'[v] = pc[v]
    BY <2>1, GotoEffect
  <2>3. InHand(w)'
    BY <1>0, <1>1, <1>2, <1>3, <1>5, <2>1, <2>2 DEF InHand, NotNeeded, Row, QueueInv, TypeOK
  <2>4. HeldRow(w, m)' /\ Row(m)'
    BY <1>0, <1>1, <1>2, <1>3, <2>1, <2>2 DEF HeldRow, Row
  <2>. QED  BY <1>0, <1>1, <1>2, <1>3, <2>1, <2>2, <2>3, <2>4, StepInHand
<1>. QED  BY <1>4, <1>5

LEMMA SendKeepsInv ==
    ASSUME QueueInv, NEW w \in Workers, Send(w)
    PROVE  ClaimInv' /\ RowInv'
<1>0. pc[w] = "send"
  BY DEF Send
<1>1. PICK m \in Notifs : m = cur[w]
  BY <1>0, HandFacts
<1>2. m \in Held(w) /\ HeldRow(w, m) /\ Row(m) /\ InHand(w)
  BY <1>0, <1>1, HandFacts
<1>3. UNCHANGED <<status, attempt, handled, claim, cur, audited>>
  BY DEF Send, rows
<1>4. PICK taken \in BOOLEAN, step \in {"mark"} \cup AfterError :
        /\ ~taken => step \in AfterError
        /\ delivered' = IF taken THEN [delivered EXCEPT ![m] = @ + 1] ELSE delivered
        /\ late' = IF taken /\ handled THEN [late EXCEPT ![m] = @ + 1] ELSE late
        /\ Goto(w, step)
  BY <1>1 DEF Send
<1>5. step \in {"mark", "fail"} /\ (step = "mark" => taken)
  BY <1>4 DEF AfterError
<1>6. pc'[w] = step /\ \A v \in Workers \ {w} : pc'[v] = pc[v]
  BY <1>4, GotoEffect
<1>7. /\ delivered'[m] = IF taken THEN delivered[m] + 1 ELSE delivered[m]
      /\ late'[m] = IF taken /\ handled THEN late[m] + 1 ELSE late[m]
      /\ \A n \in Notifs \ {m} : delivered'[n] = delivered[n] /\ late'[n] = late[n]
  BY <1>4 DEF QueueInv, TypeOK
<1>8. /\ attempt[m] \in Nat /\ delivered[m] \in Nat /\ late[m] \in Nat
      /\ audited[m] \in Nat /\ handled \in BOOLEAN
  BY DEF QueueInv, TypeOK
<1>9. delivered[m] < attempt[m] /\ status[m] = "sending"
  BY <1>0, <1>2 DEF HeldRow
<1>10. Row(m)'
  BY <1>0, <1>1, <1>2, <1>3, <1>7, <1>8, <1>9 DEF Row, InHand
<1>11. HeldRow(w, m)'
  BY <1>1, <1>2, <1>3, <1>5, <1>6, <1>9 DEF HeldRow
<1>12. InHand(w)'
  BY <1>1, <1>2, <1>3, <1>5, <1>6, <1>7, <1>8 DEF InHand, Row
<1>. QED  BY <1>0, <1>1, <1>3, <1>6, <1>7, <1>10, <1>11, <1>12, StepInHand

LEMMA MarkSentKeepsInv ==
    ASSUME QueueInv, NEW w \in Workers, MarkSent(w)
    PROVE  ClaimInv' /\ RowInv'
<1>0. pc[w] = "mark"
  BY DEF MarkSent
<1>1. PICK m \in Notifs : m = cur[w]
  BY <1>0, HandFacts
<1>2. m \in Held(w) /\ HeldRow(w, m) /\ Row(m) /\ InHand(w)
  BY <1>0, <1>1, HandFacts
<1>3. UNCHANGED <<attempt, handled, claim, cur, delivered, late, audited>>
  BY DEF MarkSent, history
<1>4. status'[m] = "sent" /\ \A n \in Notifs \ {m} : status'[n] = status[n]
  BY <1>1, MarkEffect DEF MarkSent
<1>5. pc'[w] = "audit" /\ \A v \in Workers \ {w} : pc'[v] = pc[v]
  BY GotoEffect DEF MarkSent
<1>6. delivered[m] \in Nat /\ audited[m] \in Nat
  BY DEF QueueInv, TypeOK
<1>7. Row(m)'
  BY <1>0, <1>1, <1>2, <1>3, <1>4, <1>6 DEF Row, InHand
<1>8. HeldRow(w, m)' /\ InHand(w)'
  BY <1>0, <1>1, <1>2, <1>3, <1>4, <1>5 DEF HeldRow, InHand
<1>. QED  BY <1>0, <1>1, <1>3, <1>4, <1>5, <1>7, <1>8, StepInHand

LEMMA AuditKeepsInv ==
    ASSUME QueueInv, NEW w \in Workers, Audit(w)
    PROVE  ClaimInv' /\ RowInv'
<1>0. pc[w] = "audit"
  BY DEF Audit
<1>1. PICK m \in Notifs : m = cur[w]
  BY <1>0, HandFacts
<1>2. m \in Held(w) /\ HeldRow(w, m) /\ Row(m) /\ InHand(w)
  BY <1>0, <1>1, HandFacts
<1>3. UNCHANGED <<status, attempt, handled, delivered, late>> /\ PutDown(w)
  BY DEF Audit, rows, history
<1>4. audited'[m] = audited[m] + 1 /\ \A n \in Notifs \ {m} : audited'[n] = audited[n]
  BY <1>1 DEF Audit, QueueInv, TypeOK
<1>5. delivered[m] \in Nat /\ audited[m] \in Nat
  BY DEF QueueInv, TypeOK
<1>6. Row(m)'
  BY <1>0, <1>1, <1>2, <1>3, <1>4, <1>5 DEF Row, InHand
<1>. QED  BY <1>0, <1>1, <1>3, <1>4, <1>6, PutDownEffect, StepInHand

LEMMA FailKeepsInv ==
    ASSUME QueueInv, NEW w \in Workers, Fail(w)
    PROVE  ClaimInv' /\ RowInv'
<1>0. pc[w] = "fail"
  BY DEF Fail
<1>1. PICK m \in Notifs : m = cur[w]
  BY <1>0, HandFacts
<1>2. m \in Held(w) /\ HeldRow(w, m) /\ Row(m) /\ claim[w][m] = attempt[m]
  BY <1>0, <1>1, HandFacts DEF HeldRow
<1>3. UNCHANGED <<handled, delivered, late, audited>> /\ PutDown(w)
  BY DEF Fail, history
<1>4. attempt[m] \in Nat /\ delivered[m] \in Nat /\ MaxAttempts \in Nat
  BY QueueAssumption DEF QueueInv, TypeOK
<1>5. CASE LastAttempt(w)
  <2>1. Mark(w, "dead") /\ attempt' = attempt
    BY <1>5 DEF Fail
  <2>2. status'[m] = "dead" /\ \A n \in Notifs \ {m} : status'[n] = status[n]
    BY <1>1, <2>1, MarkEffect
  <2>3. attempt[m] = MaxAttempts
    BY <1>1, <1>2, <1>4, <1>5 DEF LastAttempt, Row
  <2>4. Row(m)'
    BY <1>2, <1>3, <2>1, <2>2, <2>3 DEF Row
  <2>. QED  BY <1>0, <1>1, <1>3, <2>1, <2>2, <2>4, PutDownEffect, StepInHand
<1>6. CASE ~LastAttempt(w)
  <2>1. /\ Mark(w, "retrying")
        /\ attempt' = [attempt EXCEPT ![m] = claim[w][m] + 1]
    BY <1>1, <1>6 DEF Fail
  <2>2. status'[m] = "retrying" /\ \A n \in Notifs \ {m} : status'[n] = status[n]
    BY <1>1, <2>1, MarkEffect
  <2>3. attempt'[m] = attempt[m] + 1 /\ \A n \in Notifs \ {m} : attempt'[n] = attempt[n]
    BY <1>2, <2>1 DEF QueueInv, TypeOK
  <2>4. attempt[m] < MaxAttempts
    BY <1>1, <1>2, <1>4, <1>6 DEF LastAttempt
  <2>5. Row(m)'
    BY <1>2, <1>3, <1>4, <2>2, <2>3, <2>4 DEF Row
  <2>. QED  BY <1>0, <1>1, <1>3, <2>2, <2>3, <2>5, PutDownEffect, StepInHand
<1>. QED  BY <1>5, <1>6

-----------------------------------------------------------------------------
(***************************************************************************)
(* The theorems.                                                           *)
(***************************************************************************)
LEMMA QueueInvStep == QueueInv /\ [Next]_vars => QueueInv'
<1>. SUFFICES ASSUME QueueInv, [Next]_vars PROVE QueueInv'
  OBVIOUS
<1>1. CASE \E n \in Notifs : Enqueue(n) \/ BackoffElapses(n)
  BY <1>1, RowStepType, EnvironmentInv DEF QueueInv
<1>2. CASE Handle
  <2>1. CASE Notifs = {}
    <3>1. TypeOK'
      BY <1>2 DEF Handle, QueueInv, TypeOK, rows, work, history
    <3>2. ClaimInv' /\ RowInv'
      BY <1>2, <2>1 DEF Handle, rows, work, history, QueueInv, TypeOK, ClaimInv,
        ClaimExclusive, InHand, RowInv
    <3>. QED  BY <3>1, <3>2 DEF QueueInv
  <2>2. CASE Notifs # {}
    BY <1>2, <2>2, RowStepType, EnvironmentInv DEF QueueInv
  <2>. QED  BY <2>1, <2>2
<1>3. ASSUME NEW w \in Workers, WorkerStep(w) \/ Crash(w)
      PROVE  QueueInv'
  <2>1. CASE Claim(w)
    BY <2>1, ClaimType, ClaimKeepsInv DEF QueueInv
  <2>2. CASE Take(w)
    BY <2>2, WorkerStepType, TakeKeepsInv DEF QueueInv
  <2>3. CASE Look(w)
    BY <2>3, WorkerStepType, LookKeepsInv DEF QueueInv
  <2>4. CASE Send(w)
    BY <2>4, WorkerStepType, SendKeepsInv DEF QueueInv
  <2>5. CASE MarkSent(w)
    BY <2>5, WorkerStepType, MarkSentKeepsInv DEF QueueInv
  <2>6. CASE Audit(w)
    BY <2>6, WorkerStepType, AuditKeepsInv DEF QueueInv
  <2>7. CASE Fail(w)
    BY <2>7, WorkerStepType, FailKeepsInv DEF QueueInv
  <2>8. CASE Crash(w)
    BY <2>8, WorkerStepType, CrashKeepsInv DEF QueueInv
  <2>. QED  BY <1>3, <2>1, <2>2, <2>3, <2>4, <2>5, <2>6, <2>7, <2>8 DEF WorkerStep
<1>4. CASE UNCHANGED vars
  <2>1. UNCHANGED <<status, attempt, due, handled, claim, cur, pc, delivered, late,
                    audited, faults>>
    BY <1>4 DEF vars, rows, work, history
  <2>2. TypeOK'
    BY <2>1 DEF QueueInv, TypeOK
  <2>3. ClaimInv'
    BY <2>1 DEF QueueInv, ClaimInv, ClaimExclusive, InHand, HeldRow
  <2>4. RowInv'
    BY <2>1 DEF QueueInv, RowInv, Row
  <2>. QED  BY <2>2, <2>3, <2>4 DEF QueueInv
<1>. QED  BY <1>1, <1>2, <1>3, <1>4 DEF Next

LEMMA QueueInvHolds == Spec => []QueueInv
<1>1. Init => QueueInv
  BY QueueInvInit
<1>2. QueueInv /\ [Next]_vars => QueueInv'
  BY QueueInvStep
<1>. QED  BY <1>1, <1>2, PTL DEF Spec

\* Type correctness of the queue.
THEOREM TypeCorrect == Spec => []TypeOK
<1>1. QueueInv => TypeOK
  BY DEF QueueInv
<1>. QED  BY <1>1, QueueInvHolds, PTL

\* claim_and_process_notifications: no two workers ever hold the same row,
\* whatever crashes and retries happen, though the row does not name its owner.
THEOREM ClaimsAreExclusive == Spec => []ClaimExclusive
<1>1. QueueInv => ClaimExclusive
  BY DEF QueueInv, ClaimInv
<1>. QED  BY <1>1, QueueInvHolds, PTL

\* handle_failure: a row is attempted at most max_attempts times and delivered
\* at most once per attempt, also when the answer to a delivery is lost.
THEOREM AttemptsAreBounded == Spec => []AttemptsBounded
<1>1. QueueInv => AttemptsBounded
  BY QueueAssumption DEF QueueInv, TypeOK, RowInv, Row, AttemptsBounded
<1>. QED  BY <1>1, QueueInvHolds, PTL

\* mark_sent, handle_failure: a row that says "sent" was delivered, or its
\* incident was handled; only an exhausted row is dead-lettered.
THEOREM OutcomesAreEarned == Spec => []OutcomeEarned
<1>1. QueueInv => OutcomeEarned
  BY DEF QueueInv, RowInv, Row, OutcomeEarned
<1>. QED  BY <1>1, QueueInvHolds, PTL

\* _process_email: at most one e-mail of a row goes out after the incident was
\* handled.
THEOREM OneLateMail == Spec => []AtMostOneLateMail
<1>1. QueueInv => AtMostOneLateMail
  BY DEF QueueInv, RowInv, Row, AtMostOneLateMail
<1>. QED  BY <1>1, QueueInvHolds, PTL

\* _process_email, _process_webhook: the timeline reports no more deliveries
\* than there were.
THEOREM AuditWasHonest == Spec => []AuditIsHonest
<1>1. QueueInv => AuditIsHonest
  BY DEF QueueInv, RowInv, Row, AuditIsHonest
<1>. QED  BY <1>1, QueueInvHolds, PTL

-----------------------------------------------------------------------------
(***************************************************************************)
(* What crashes lose: a batch, and of one row the audit entry.             *)
(***************************************************************************)
LossInv ==
    /\ \A w \in Workers : Cardinality(Held(w)) <= BatchLimit
    /\ \A w \in Workers : pc[w] = "audit" => status[cur[w]] = "sent"
    /\ OrphansBounded
    /\ DeliveriesAreTold

LEMMA Finite ==
    ASSUME NEW S \in SUBSET Notifs
    PROVE  IsFiniteSet(S) /\ Cardinality(S) \in Nat
<1>1. IsFiniteSet(Notifs)
  BY QueueAssumption
<1>2. IsFiniteSet(S)
  BY <1>1, FS_Subset
<1>. QED  BY <1>2, FS_CardinalityType

LEMMA Smaller ==
    ASSUME NEW S \in SUBSET Notifs, NEW T \in SUBSET S
    PROVE  Cardinality(T) <= Cardinality(S) /\ Cardinality(T) \in Nat /\ Cardinality(S) \in Nat
<1>1. IsFiniteSet(S) /\ Cardinality(S) \in Nat /\ Cardinality(T) \in Nat
  BY Finite
<1>2. Cardinality(T) <= Cardinality(S)
  BY <1>1, FS_Subset
<1>. QED  BY <1>1, <1>2

LEMMA Together ==
    ASSUME NEW S \in SUBSET Notifs, NEW T \in SUBSET Notifs, NEW U \in SUBSET (S \cup T)
    PROVE  /\ Cardinality(U) <= Cardinality(S) + Cardinality(T)
           /\ Cardinality(U) \in Nat /\ Cardinality(S) \in Nat /\ Cardinality(T) \in Nat
<1>1. IsFiniteSet(S) /\ IsFiniteSet(T) /\ Cardinality(S) \in Nat /\ Cardinality(T) \in Nat
  BY Finite
<1>2. IsFiniteSet(S \cap T)
  BY <1>1, FS_Intersection
<1>3. Cardinality(S \cup T) = Cardinality(S) + Cardinality(T) - Cardinality(S \cap T)
  BY <1>1, FS_Union
<1>4. Cardinality(S \cap T) \in Nat
  BY <1>2, FS_CardinalityType
<1>5. Cardinality(U) <= Cardinality(S \cup T) /\ Cardinality(U) \in Nat
  <2>1. S \cup T \in SUBSET Notifs
    OBVIOUS
  <2>. QED  BY <2>1, Smaller
<1>. QED  BY <1>1, <1>3, <1>4, <1>5

\* A fault more allows a batch more.
LEMMA AnotherBatch ==
    ASSUME NEW f \in Nat
    PROVE  /\ f * BatchLimit \in Nat /\ (f + 1) * BatchLimit \in Nat
           /\ (f + 1) * BatchLimit = f * BatchLimit + BatchLimit
BY QueueAssumption

\* A step that loses nothing.
LEMMA NothingLost ==
    ASSUME TypeOK, LossInv, TypeOK',
           Orphans' \subseteq Orphans, Untold' \subseteq Untold,
           faults' = faults \/ faults' = faults + 1,
           \A w \in Workers : Held(w)' \subseteq Held(w),
           \A w \in Workers : pc'[w] = "audit" => status'[cur'[w]] = "sent"
    PROVE  LossInv'
<1>1. \A w \in Workers : Cardinality(Held(w)') <= BatchLimit
  <2> SUFFICES ASSUME NEW w \in Workers PROVE Cardinality(Held(w)') <= BatchLimit
    OBVIOUS
  <2>1. Held(w) \in SUBSET Notifs /\ Held(w)' \in SUBSET Held(w)
    BY DEF TypeOK
  <2>2. /\ Cardinality(Held(w)') <= Cardinality(Held(w))
        /\ Cardinality(Held(w)') \in Nat /\ Cardinality(Held(w)) \in Nat
    BY <2>1, Smaller
  <2>. QED  BY <2>2, QueueAssumption DEF LossInv
<1>2. Orphans \in SUBSET Notifs /\ Untold \in SUBSET Notifs
  BY DEF Orphans, Untold
<1>3. /\ Cardinality(Orphans') <= Cardinality(Orphans)
      /\ Cardinality(Orphans') \in Nat /\ Cardinality(Orphans) \in Nat
  BY <1>2, Smaller
<1>4. /\ Cardinality(Untold') <= Cardinality(Untold)
      /\ Cardinality(Untold') \in Nat /\ Cardinality(Untold) \in Nat
  BY <1>2, Smaller
<1>5. faults \in Nat /\ faults * BatchLimit \in Nat /\ BatchLimit \in Nat
      /\ (faults + 1) * BatchLimit = faults * BatchLimit + BatchLimit
  <2>1. faults \in Nat
    BY DEF TypeOK
  <2>. QED  BY <2>1, AnotherBatch, QueueAssumption
<1>6. OrphansBounded'
  <2>1. Cardinality(Orphans) <= faults * BatchLimit
    BY DEF LossInv, OrphansBounded
  <2>2. faults' * BatchLimit = faults * BatchLimit \/ faults' * BatchLimit = faults * BatchLimit + BatchLimit
    BY <1>5
  <2>. QED  BY <1>3, <1>5, <2>1, <2>2 DEF OrphansBounded
<1>7. DeliveriesAreTold'
  BY <1>4, <1>5 DEF LossInv, DeliveriesAreTold
<1>. QED  BY <1>1, <1>6, <1>7 DEF LossInv

\* A worker moves on with the row in its hand: it keeps it, or puts it down with
\* an outcome that is told.
LEMMA LossInHand ==
    ASSUME QueueInv, LossInv, QueueInv', NEW w \in Workers, NEW m \in Notifs,
           handled' = handled, faults' = faults \/ faults' = faults + 1,
           \A n \in Notifs \ {m} : status'[n] = status[n] /\ audited'[n] = audited[n],
           \A v \in Workers \ {w} : claim'[v] = claim[v] /\ cur'[v] = cur[v] /\ pc'[v] = pc[v],
           Held(w)' \subseteq Held(w), Held(w) \ Held(w)' \subseteq {m}, m \in Held(w),
           m \notin Held(w)' =>
             /\ status'[m] # "sending"
             /\ status'[m] = "sent" => audited'[m] # 0 \/ (handled /\ m \notin Webhooks),
           pc'[w] = "audit" => status'[cur'[w]] = "sent"
    PROVE  LossInv'
<1>1. Orphans' \subseteq Orphans
  BY DEF Orphans
<1>2. Untold' \subseteq Untold
  BY DEF Untold
<1>3. \A v \in Workers : Held(v)' \subseteq Held(v)
  OBVIOUS
<1>4. ASSUME NEW v \in Workers, pc'[v] = "audit"
      PROVE  status'[cur'[v]] = "sent"
  <2>1. CASE v = w
    BY <1>4, <2>1
  <2>2. CASE v # w
    <3>1. pc[v] = "audit" /\ cur'[v] = cur[v]
      BY <1>4, <2>2
    <3>2. cur[v] \in Held(v) /\ Held(v) \cap Held(w) = {} /\ cur[v] \in Notifs
      BY <2>2, <3>1 DEF QueueInv, ClaimInv, InHand, ClaimExclusive, TypeOK
    <3>. QED  BY <3>1, <3>2 DEF LossInv
  <2>. QED  BY <2>1, <2>2
<1>. QED  BY <1>1, <1>2, <1>3, <1>4, NothingLost DEF QueueInv

LEMMA LossInit == Init => LossInv
<1> SUFFICES ASSUME Init PROVE LossInv
  OBVIOUS
<1>1. Cardinality({}) = 0
  BY FS_EmptySet
<1>2. \A w \in Workers : Held(w) = {}
  BY EmptyBatch DEF Init
<1>3. Orphans = {} /\ Untold = {}
  BY DEF Init, Orphans, Untold
<1>. QED  BY <1>1, <1>2, <1>3, QueueAssumption DEF LossInv, OrphansBounded, DeliveriesAreTold, Init

LEMMA LossEnvironment ==
    ASSUME QueueInv, LossInv, QueueInv',
           (\E n \in Notifs : Enqueue(n) \/ BackoffElapses(n)) \/ Handle
    PROVE  LossInv'
<1>1. UNCHANGED <<claim, cur, pc, audited, faults>> /\ (handled => handled')
  BY DEF Enqueue, BackoffElapses, Handle, rows, work, history
<1>2. \A m \in Notifs : status'[m] = status[m] \/ (status[m] = "absent" /\ status'[m] = "queued")
  BY DEF Enqueue, BackoffElapses, Handle, rows, QueueInv, TypeOK
<1>3. Orphans' \subseteq Orphans /\ Untold' \subseteq Untold
  BY <1>1, <1>2 DEF Orphans, Untold
<1>4. ASSUME NEW w \in Workers, pc'[w] = "audit"
      PROVE  status'[cur'[w]] = "sent"
  BY <1>1, <1>2, <1>4, InHandType DEF QueueInv, LossInv
<1>. QED  BY <1>1, <1>3, <1>4, NothingLost DEF QueueInv

\* A claim takes no more than BatchLimit rows, none of them sent.
LEMMA LossClaim ==
    ASSUME QueueInv, LossInv, QueueInv', NEW w \in Workers, Claim(w)
    PROVE  LossInv'
<1>1. PICK S \in Batches \ {{}} :
         /\ status' = [n \in Notifs |-> IF n \in S THEN "sending" ELSE status[n]]
         /\ claim' = [claim EXCEPT ![w] = [n \in S |-> attempt[n]]]
  BY DEF Claim
<1>2. S \subseteq Notifs /\ (\A n \in S : status[n] \in {"queued", "retrying"})
      /\ Cardinality(S) <= BatchLimit
  BY <1>1, QueueAssumption DEF Batches, Claimable
<1>3. Held(w)' = S /\ Held(w) = {} /\ \A v \in Workers \ {w} : Held(v)' = Held(v)
  BY <1>1 DEF Claim, QueueInv, TypeOK
<1>4. UNCHANGED <<handled, cur, pc, audited, faults>> /\ pc[w] = "idle"
  BY DEF Claim, history
<1>5. Orphans' \subseteq Orphans /\ Untold' \subseteq Untold
  BY <1>1, <1>2, <1>3, <1>4 DEF Orphans, Untold
<1>6. \A v \in Workers : pc[v] = "audit" => status'[cur[v]] = "sent"
  BY <1>1, <1>2, InHandType DEF LossInv, QueueInv
<1>7. OrphansBounded' /\ DeliveriesAreTold'
  <2>1. Orphans \in SUBSET Notifs /\ Untold \in SUBSET Notifs
    BY DEF Orphans, Untold
  <2>2. Cardinality(Orphans') <= Cardinality(Orphans) /\ Cardinality(Orphans') \in Nat /\ Cardinality(Orphans) \in Nat
    BY <1>5, <2>1, Smaller
  <2>3. Cardinality(Untold') <= Cardinality(Untold) /\ Cardinality(Untold') \in Nat /\ Cardinality(Untold) \in Nat
    BY <1>5, <2>1, Smaller
  <2>4. faults * BatchLimit \in Nat /\ faults \in Nat
    BY AnotherBatch DEF QueueInv, TypeOK
  <2>. QED  BY <1>4, <2>2, <2>3, <2>4 DEF LossInv, OrphansBounded, DeliveriesAreTold
<1>. QED  BY <1>2, <1>3, <1>4, <1>6, <1>7 DEF LossInv

\* A crash strands the batch, and leaves one delivery untold: of the rows in it
\* only the one in hand can say "sent".
LEMMA LossCrash ==
    ASSUME QueueInv, LossInv, QueueInv', NEW w \in Workers, Crash(w)
    PROVE  LossInv'
<1>1. Held(w)' = {} /\ pc'[w] = "idle"
  BY ForgetType DEF Crash, Forget, QueueInv, TypeOK
<1>2. /\ UNCHANGED <<status, handled, audited>> /\ faults' = faults + 1
      /\ \A v \in Workers \ {w} : claim'[v] = claim[v] /\ cur'[v] = cur[v] /\ pc'[v] = pc[v]
  BY DEF Crash, Fault, Forget, rows, history, QueueInv, TypeOK
<1>3. Held(w) \in SUBSET Notifs /\ Orphans \in SUBSET Notifs /\ Untold \in SUBSET Notifs
  BY DEF Orphans, Untold, QueueInv, TypeOK
<1>4. \A v \in Workers : pc'[v] = "audit" => status'[cur'[v]] = "sent"
  BY <1>1, <1>2 DEF LossInv
<1>5. \A v \in Workers : Cardinality(Held(v)') <= BatchLimit
  <2>1. Cardinality({}) = 0
    BY FS_EmptySet
  <2>. QED  BY <1>1, <1>2, <2>1, QueueAssumption DEF LossInv
<1>6. faults \in Nat /\ faults * BatchLimit \in Nat /\ BatchLimit \in Nat
      /\ (faults + 1) * BatchLimit = faults * BatchLimit + BatchLimit
  <2>1. faults \in Nat
    BY DEF QueueInv, TypeOK
  <2>. QED  BY <2>1, AnotherBatch, QueueAssumption
<1>7. OrphansBounded'
  <2>1. Orphans' \subseteq Orphans \cup Held(w)
    BY <1>2 DEF Orphans
  <2>2. /\ Cardinality(Orphans') <= Cardinality(Orphans) + Cardinality(Held(w))
        /\ Cardinality(Orphans') \in Nat /\ Cardinality(Orphans) \in Nat /\ Cardinality(Held(w)) \in Nat
    BY <1>3, <2>1, Together
  <2>3. Cardinality(Orphans) <= faults * BatchLimit /\ Cardinality(Held(w)) <= BatchLimit
    BY DEF LossInv, OrphansBounded
  <2>4. faults' * BatchLimit = faults * BatchLimit + BatchLimit
    BY <1>2, <1>6
  <2>. QED  BY <1>6, <2>2, <2>3, <2>4 DEF OrphansBounded
<1>8. DeliveriesAreTold'
  <2> DEFINE hand == IF cur[w] \in Notifs THEN {cur[w]} ELSE {}
  <2>1. Untold' \subseteq Untold \cup hand
    <3> SUFFICES ASSUME NEW n \in Untold', n \notin Untold
                 PROVE  n \in hand
      OBVIOUS
    <3>1. n \in Notifs /\ status[n] = "sent" /\ n \in Held(w)
      BY <1>2 DEF Untold
    <3>2. HeldRow(w, n)
      BY <3>1 DEF QueueInv, ClaimInv
    <3>. QED  BY <3>1, <3>2 DEF HeldRow
  <2>2. hand \in SUBSET Notifs /\ Cardinality(hand) <= 1 /\ Cardinality(hand) \in Nat
    <3>1. Cardinality({cur[w]}) = 1 /\ Cardinality({}) = 0
      BY FS_Singleton, FS_EmptySet
    <3>. QED  BY <3>1
  <2>. HIDE DEF hand
  <2>3. /\ Cardinality(Untold') <= Cardinality(Untold) + Cardinality(hand)
        /\ Cardinality(Untold') \in Nat /\ Cardinality(Untold) \in Nat
    BY <1>3, <2>1, <2>2, Together
  <2>. QED  BY <1>2, <1>6, <2>2, <2>3 DEF LossInv, DeliveriesAreTold
<1>. QED  BY <1>4, <1>5, <1>7, <1>8 DEF LossInv

\* A worker that puts a row down lets go of that row and of no other.
LEMMA PutDownReleases ==
    ASSUME QueueInv, NEW w \in Workers, PutDown(w)
    PROVE  /\ Held(w)' = Held(w) \ {cur[w]} /\ pc'[w] = "idle"
           /\ \A v \in Workers \ {w} : claim'[v] = claim[v] /\ cur'[v] = cur[v] /\ pc'[v] = pc[v]
<1>1. claim'[w] = [n \in StillToDo(w) |-> claim[w][n]]
  BY DEF PutDown, QueueInv, TypeOK
<1>. QED  BY <1>1, PutDownEffect DEF StillToDo

LEMMA LossWorker ==
    ASSUME QueueInv, LossInv, QueueInv', NEW w \in Workers,
           Look(w) \/ Send(w) \/ MarkSent(w) \/ Audit(w) \/ Fail(w)
    PROVE  LossInv'
<1>0. pc[w] # "idle"
  BY DEF Look, Send, MarkSent, Audit, Fail
<1>1. PICK m \in Notifs : m = cur[w]
  BY <1>0, HandFacts
<1>2. m \in Held(w) /\ HeldRow(w, m)
  BY <1>0, <1>1, HandFacts
<1>3. handled' = handled /\ faults' = faults
  BY DEF Look, Send, MarkSent, Audit, Fail, rows, history
<1>4. CASE Look(w)
  <2>1. audited' = audited
    BY <1>4 DEF Look
  <2>2. CASE NotNeeded(m)
    <3>1. Mark(w, "sent") /\ PutDown(w)
      BY <1>1, <1>4, <2>2 DEF Look
    <3>2. status'[m] = "sent" /\ \A n \in Notifs \ {m} : status'[n] = status[n]
      BY <1>1, <3>1, MarkEffect
    <3>3. handled /\ m \notin Webhooks
      BY <2>2 DEF NotNeeded
    <3>. QED  BY <1>1, <1>2, <1>3, <2>1, <3>1, <3>2, <3>3, PutDownReleases, LossInHand
  <2>3. CASE ~NotNeeded(m)
    <3>1. Goto(w, "send") /\ UNCHANGED <<status, claim, cur>>
      BY <1>1, <1>4, <2>3 DEF Look
    <3>2. pc'[w] = "send" /\ \A v \in Workers \ {w} : pc'[v] = pc[v]
      BY <3>1, GotoEffect
    <3>. QED  BY <1>2, <1>3, <2>1, <3>1, <3>2, LossInHand
  <2>. QED  BY <2>2, <2>3
<1>5. CASE Send(w)
  <2>1. PICK step \in {"mark", "fail"} : Goto(w, step)
    BY <1>5 DEF Send, AfterError
  <2>2. UNCHANGED <<status, claim, cur, audited>>
    BY <1>5 DEF Send, rows
  <2>3. pc'[w] = step /\ \A v \in Workers \ {w} : pc'[v] = pc[v]
    BY <2>1, GotoEffect
  <2>. QED  BY <1>2, <1>3, <2>1, <2>2, <2>3, LossInHand
<1>6. CASE MarkSent(w)
  <2>1. UNCHANGED <<claim, cur, audited>>
    BY <1>6 DEF MarkSent
  <2>2. status'[m] = "sent" /\ \A n \in Notifs \ {m} : status'[n] = status[n]
    BY <1>1, <1>6, MarkEffect DEF MarkSent
  <2>3. pc'[w] = "audit" /\ \A v \in Workers \ {w} : pc'[v] = pc[v]
    BY <1>6, GotoEffect DEF MarkSent
  <2>. QED  BY <1>1, <1>2, <1>3, <2>1, <2>2, <2>3, LossInHand
<1>7. CASE Audit(w)
  <2>1. status' = status /\ PutDown(w) /\ pc[w] = "audit"
    BY <1>7 DEF Audit, rows
  <2>2. audited'[m] = audited[m] + 1 /\ \A n \in Notifs \ {m} : audited'[n] = audited[n]
    BY <1>1, <1>7 DEF Audit, QueueInv, TypeOK
  <2>3. status[m] = "sent" /\ audited[m] \in Nat
    BY <1>1, <2>1 DEF LossInv, QueueInv, TypeOK
  <2>. QED  BY <1>1, <1>2, <1>3, <2>1, <2>2, <2>3, PutDownReleases, LossInHand
<1>8. CASE Fail(w)
  <2>1. audited' = audited /\ PutDown(w)
    BY <1>8 DEF Fail
  <2>2. Mark(w, "dead") \/ Mark(w, "retrying")
    BY <1>8 DEF Fail
  <2>3. status'[m] \in {"dead", "retrying"} /\ \A n \in Notifs \ {m} : status'[n] = status[n]
    BY <1>1, <2>2, MarkEffect
  <2>. QED  BY <1>1, <1>2, <1>3, <2>1, <2>3, PutDownReleases, LossInHand
<1>. QED  BY <1>4, <1>5, <1>6, <1>7, <1>8

LEMMA LossStep == QueueInv /\ LossInv /\ [Next]_vars /\ QueueInv' => LossInv'
<1> SUFFICES ASSUME QueueInv, LossInv, [Next]_vars, QueueInv' PROVE LossInv'
  OBVIOUS
<1>1. ASSUME NEW w \in Workers, Take(w)
      PROVE  LossInv'
  <2>1. /\ UNCHANGED <<status, handled, claim, audited, faults>> /\ pc'[w] = "look"
        /\ \A v \in Workers \ {w} : pc'[v] = pc[v] /\ cur'[v] = cur[v]
    BY <1>1 DEF Take, rows, history, QueueInv, TypeOK
  <2>2. Orphans' \subseteq Orphans /\ Untold' \subseteq Untold
    BY <2>1 DEF Orphans, Untold
  <2>3. \A v \in Workers : pc'[v] = "audit" => status'[cur'[v]] = "sent"
    BY <2>1 DEF LossInv
  <2>. QED  BY <2>1, <2>2, <2>3, NothingLost DEF QueueInv
<1>2. CASE UNCHANGED vars
  <2>1. UNCHANGED <<status, handled, claim, cur, pc, audited, faults>>
    BY <1>2 DEF vars, rows, work, history
  <2>2. Orphans' \subseteq Orphans /\ Untold' \subseteq Untold
    BY <2>1 DEF Orphans, Untold
  <2>. QED  BY <2>1, <2>2, NothingLost DEF QueueInv, LossInv
<1>. QED  BY <1>1, <1>2, LossEnvironment, LossClaim, LossWorker, LossCrash DEF Next, WorkerStep

LEMMA LossHolds == Spec => []LossInv
<1>1. QueueInv /\ LossInv /\ [Next]_vars /\ QueueInv' => LossInv'
  BY LossStep
<1>. QED  BY <1>1, LossInit, QueueInvHolds, PTL DEF Spec

\* claim_and_process_notifications: a row that says "sending" is in the hands of
\* a worker, but for BatchLimit rows for each crash.
THEOREM OrphansAreBounded == Spec => []OrphansBounded
<1>1. LossInv => OrphansBounded
  BY DEF LossInv
<1>. QED  BY <1>1, LossHolds, PTL

\* mark_sent, then the audit entry: one crash leaves one delivery out of the
\* timeline, never a batch.
THEOREM DeliveriesWereTold == Spec => []DeliveriesAreTold
<1>1. LossInv => DeliveriesAreTold
  BY DEF LossInv
<1>. QED  BY <1>1, LossHolds, PTL
=============================================================================
