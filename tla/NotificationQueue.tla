-------------------------- MODULE NotificationQueue -------------------------
(***************************************************************************)
(* The notification_attempts table as a queue: ingestion, acknowledge,     *)
(* resolve and the escalation passes add rows, worker processes claim them *)
(* in batches and deliver them by SMTP or as webhooks.                     *)
(*                                                                         *)
(* A claim is one UPDATE with FOR UPDATE SKIP LOCKED and its COMMIT.  What *)
(* follows is not protected by the database any more: the row says         *)
(* "sending", and only the memory of the worker says who is sending it.    *)
(***************************************************************************)
EXTENDS Naturals, FiniteSets

CONSTANTS
    Notifs,        \* notification_attempts rows
    Webhooks,      \* those with channel "webhook"; the others are e-mails
    Workers,       \* worker processes
    BatchLimit,    \* LIMIT of the claiming query
    MaxAttempts,   \* max_attempts of a row: the column default and the 5 of
                   \* the escalation inserts
    None,          \* no row in hand
    MaxFaults      \* bound on crashes and database errors

ASSUME QueueAssumption ==
    /\ IsFiniteSet(Notifs)
    /\ Webhooks \subseteq Notifs
    /\ BatchLimit \in Nat \ {0}
    /\ MaxAttempts \in Nat \ {0}
    /\ None \notin Notifs
    /\ MaxFaults \in Nat

VARIABLES
    status,     \* the status column ("absent" before the insert)
    attempt,    \* attempt_number
    due,        \* next_attempt_at <= now
    handled,    \* the incident is acknowledged or resolved
    claim,      \* a worker's batch: the rows still to do, with the
                \* attempt_number the claim returned
    cur,        \* the row the worker is processing
    pc,         \* and where it is
    delivered,  \* how often the recipient got the message      (history)
    late,       \* how often after the incident was handled     (history)
    audited,    \* audit_logs entries *_sent
    faults

rows == <<status, attempt, due>>
work == <<claim, cur, pc>>
history == <<delivered, late>>
vars == <<rows, handled, work, history, audited, faults>>

Statuses == {"absent", "queued", "sending", "sent", "retrying", "dead"}

Steps == {"idle", "look", "send", "mark", "audit", "fail"}

Held(w) == DOMAIN claim[w]

Init ==
    /\ status = [n \in Notifs |-> "absent"]
    /\ attempt = [n \in Notifs |-> 1]
    /\ due = [n \in Notifs |-> FALSE]
    /\ handled = FALSE
    /\ claim = [w \in Workers |-> <<>>]
    /\ cur = [w \in Workers |-> None]
    /\ pc = [w \in Workers |-> "idle"]
    /\ delivered = [n \in Notifs |-> 0]
    /\ late = [n \in Notifs |-> 0]
    /\ audited = [n \in Notifs |-> 0]
    /\ faults = 0

\* A transaction that queues the row commits; it is due at once.
Enqueue(n) ==
    /\ status[n] = "absent"
    /\ status' = [status EXCEPT ![n] = "queued"]
    /\ due' = [due EXCEPT ![n] = TRUE]
    /\ UNCHANGED <<attempt, handled, work, history, audited, faults>>

\* Somebody acknowledges or resolves the incident.
Handle ==
    /\ ~handled
    /\ handled' = TRUE
    /\ UNCHANGED <<rows, work, history, audited, faults>>

BackoffElapses(n) ==
    /\ status[n] = "retrying" /\ ~due[n]
    /\ due' = [due EXCEPT ![n] = TRUE]
    /\ UNCHANGED <<status, attempt, handled, work, history, audited, faults>>

-----------------------------------------------------------------------------
ClaimableQueued(n) == status[n] = "queued" /\ due[n]

ClaimableOrStuck(n) == status[n] \in {"queued", "retrying", "sending"} /\ due[n]

Claimable(n) == status[n] \in {"queued", "retrying"} /\ due[n]

\* The BatchLimit rows that have waited longest; the order of next_attempt_at
\* is left open.
Batches ==
    LET rowsDue == {n \in Notifs : Claimable(n)} IN
    {S \in SUBSET rowsDue :
        \/ S = rowsDue /\ Cardinality(S) <= BatchLimit
        \/ Cardinality(S) = BatchLimit}

Claim(w) ==
    /\ pc[w] = "idle" /\ Held(w) = {}
    /\ \E S \in Batches \ {{}} :
         /\ status' = [n \in Notifs |-> IF n \in S THEN "sending" ELSE status[n]]
         /\ claim' = [claim EXCEPT ![w] = [n \in S |-> attempt[n]]]
    /\ UNCHANGED <<attempt, due, handled, cur, pc, history, audited, faults>>

\* for notif in notifications
Take(w) ==
    /\ pc[w] = "idle"
    /\ \E n \in Held(w) : cur' = [cur EXCEPT ![w] = n]
    /\ pc' = [pc EXCEPT ![w] = "look"]
    /\ UNCHANGED <<rows, handled, claim, history, audited, faults>>

AbandonBatch(w) == {}

StillToDo(w) == Held(w) \ {cur[w]}

\* The worker is done with the row in hand.
PutDown(w) ==
    /\ claim' = [claim EXCEPT ![w] = [n \in StillToDo(w) |-> claim[w][n]]]
    /\ cur' = [cur EXCEPT ![w] = None]
    /\ pc' = [pc EXCEPT ![w] = "idle"]

Goto(w, step) == pc' = [pc EXCEPT ![w] = step]

Mark(w, s) == status' = [status EXCEPT ![cur[w]] = s]

NeededAlways(n) == FALSE

\* An e-mail about an acknowledged or resolved incident is not sent; a webhook
\* always is.
NotNeeded(n) == n \notin Webhooks /\ handled

\* Read the user and the incident (e-mail), or the subscription (webhook).  The
\* foreign keys keep both there, and no operation deactivates a subscription.
Look(w) ==
    /\ pc[w] = "look"
    /\ IF NotNeeded(cur[w])
       THEN Mark(w, "sent") /\ PutDown(w)
       ELSE Goto(w, "send") /\ UNCHANGED <<status, claim, cur>>
    /\ UNCHANGED <<attempt, due, handled, history, audited, faults>>

IgnoreSmtpError == {"mark"}

\* Where an SMTP or HTTP exception leads.
AfterError == {"fail"}

\* The server takes the message, or refuses it, or takes it and the answer is
\* lost (timeout), which to the worker is the same as a refusal.
Send(w) ==
    /\ pc[w] = "send"
    /\ \E taken \in BOOLEAN, step \in {"mark"} \cup AfterError :
         /\ ~taken => step \in AfterError
         /\ delivered' = IF taken THEN [delivered EXCEPT ![cur[w]] = @ + 1] ELSE delivered
         /\ late' = IF taken /\ handled THEN [late EXCEPT ![cur[w]] = @ + 1] ELSE late
         /\ Goto(w, step)
    /\ UNCHANGED <<rows, handled, claim, cur, audited, faults>>

\* mark_sent, a COMMIT of its own.
MarkSent(w) ==
    /\ pc[w] = "mark"
    /\ Mark(w, "sent")
    /\ Goto(w, "audit")
    /\ UNCHANGED <<attempt, due, handled, claim, cur, history, audited, faults>>

AuditMailOnly(w) ==
    /\ pc[w] = "audit"
    /\ audited' = IF cur[w] \in Webhooks THEN audited
                  ELSE [audited EXCEPT ![cur[w]] = @ + 1]
    /\ PutDown(w)
    /\ UNCHANGED <<rows, handled, history, faults>>

\* The audit entry, in a second transaction.
Audit(w) ==
    /\ pc[w] = "audit"
    /\ audited' = [audited EXCEPT ![cur[w]] = @ + 1]
    /\ PutDown(w)
    /\ UNCHANGED <<rows, handled, history, faults>>

LastAttemptOffByOne(w) == claim[w][cur[w]] > MaxAttempts

LastAttemptEarly(w) == claim[w][cur[w]] + 1 >= MaxAttempts

LastAttempt(w) == claim[w][cur[w]] >= MaxAttempts

\* handle_failure: dead-letter, or retry after a backoff.
Fail(w) ==
    /\ pc[w] = "fail"
    /\ IF LastAttempt(w)
       THEN Mark(w, "dead") /\ UNCHANGED <<attempt, due>>
       ELSE /\ Mark(w, "retrying")
            /\ attempt' = [attempt EXCEPT ![cur[w]] = claim[w][cur[w]] + 1]
            /\ due' = [due EXCEPT ![cur[w]] = FALSE]
    /\ PutDown(w)
    /\ UNCHANGED <<handled, history, audited, faults>>

-----------------------------------------------------------------------------
Fault == faults < MaxFaults /\ faults' = faults + 1

\* The worker forgets its batch: the rows stay "sending".
Forget(w) ==
    /\ claim' = [claim EXCEPT ![w] = <<>>]
    /\ cur' = [cur EXCEPT ![w] = None]
    /\ pc' = [pc EXCEPT ![w] = "idle"]

\* The process is killed, or a statement or a COMMIT raises: until a rollback the
\* session refuses every statement, handle_failure's own too, and the exception
\* leaves the loop over the batch.  (A COMMIT that raises after it took effect is
\* the step followed by a crash.)
Crash(w) ==
    /\ Fault
    /\ Held(w) # {}
    /\ Forget(w)
    /\ UNCHANGED <<rows, handled, history, audited>>

WorkerStep(w) ==
    \/ Claim(w)
    \/ Take(w)
    \/ Look(w)
    \/ Send(w)
    \/ MarkSent(w)
    \/ Audit(w)
    \/ Fail(w)

Next ==
    \/ \E n \in Notifs : Enqueue(n) \/ BackoffElapses(n)
    \/ Handle
    \/ \E w \in Workers : WorkerStep(w) \/ Crash(w)

Spec == Init /\ [][Next]_vars

\* Workers poll and process; time passes.
FairSpec ==
    /\ Spec
    /\ \A w \in Workers : WF_vars(WorkerStep(w))
    /\ \A n \in Notifs : WF_vars(BackoffElapses(n))

-----------------------------------------------------------------------------
(***************************************************************************)
(* Properties.                                                             *)
(***************************************************************************)

\* Every variable keeps its type.
TypeOK ==
    /\ status \in [Notifs -> Statuses]
    /\ attempt \in [Notifs -> Nat]
    /\ due \in [Notifs -> BOOLEAN]
    /\ handled \in BOOLEAN
    /\ DOMAIN claim = Workers
    /\ \A w \in Workers : /\ Held(w) \subseteq Notifs
                          /\ \A n \in Held(w) : claim[w][n] \in Nat
    /\ cur \in [Workers -> Notifs \cup {None}]
    /\ pc \in [Workers -> Steps]
    /\ delivered \in [Notifs -> Nat]
    /\ late \in [Notifs -> Nat]
    /\ audited \in [Notifs -> Nat]
    /\ faults \in Nat

\* No two workers ever have the same row in hand, although nothing in the row
\* names its owner and a claim outlives the transaction that made it.
ClaimExclusive ==
    \A v, w \in Workers : v # w => Held(v) \cap Held(w) = {}

\* A row is tried max_attempts times at most, and delivered no more often, even
\* when the answer is lost after the message went out.
AttemptsBounded ==
    \A n \in Notifs : attempt[n] <= MaxAttempts /\ delivered[n] <= attempt[n]

\* A row that says "sent" reached its recipient, or its incident was handled;
\* one that says "dead" was tried max_attempts times.
OutcomeEarned ==
    \A n \in Notifs :
        /\ status[n] = "sent" => delivered[n] > 0 \/ (handled /\ n \notin Webhooks)
        /\ status[n] = "dead" => attempt[n] = MaxAttempts

\* After an acknowledge at most one e-mail of each row still goes out: the one
\* a worker had already decided to send.
AtMostOneLateMail == \A n \in Notifs \ Webhooks : late[n] <= 1

\* Rows that say "sending" are in some worker's hands, except those of the
\* batches that crashes have taken: BatchLimit for each.
Orphans == {n \in Notifs : status[n] = "sending"
                           /\ \A w \in Workers : n \notin Held(w)}

OrphansBounded == Cardinality(Orphans) <= faults * BatchLimit

\* The timeline never reports a delivery that did not happen.
AuditIsHonest == \A n \in Notifs : audited[n] <= delivered[n]

\* Every queued notification is delivered or dead-lettered in the end, unless a
\* crash strands it; PLAN.md and README.md promise it without the exception.
SettledOrStranded ==
    \A n \in Notifs : status[n] = "queued" ~> status[n] \in {"sent", "dead"} \/ n \in Orphans

\* mark_sent commits before the audit entry does, so a crash in between leaves
\* a delivery out of the timeline: one for each crash at most, never a batch.
\* (An e-mail that is retried after its answer was lost, and then skipped because
\* the incident is handled, is left out too; that takes no crash.)
Untold == {n \in Notifs : /\ status[n] = "sent" /\ audited[n] = 0
                          /\ n \in Webhooks \/ ~handled
                          /\ \A w \in Workers : n \notin Held(w)}

DeliveriesAreTold == Cardinality(Untold) <= faults
=============================================================================
