------------------------------ MODULE Webhooks ------------------------------
(***************************************************************************)
(* Outbound webhook subscriptions: they are created and deleted by API     *)
(* requests while life-cycle transactions (trigger, acknowledge, resolve)  *)
(* queue a delivery for each of them, and the worker looks the             *)
(* subscription up again when it delivers.                                 *)
(*                                                                         *)
(* A life-cycle transaction reads the subscriptions, inserts a delivery    *)
(* row for each at its flush, and commits later.  What holds the two       *)
(* tables together is the foreign key of notification_attempts: an insert  *)
(* locks the subscription (KEY SHARE) until the transaction ends, and a    *)
(* subscription with a delivery cannot be deleted.                         *)
(***************************************************************************)
EXTENDS FiniteSets

CONSTANTS
    Events,         \* VALID_EVENTS
    Subscriptions,  \* webhook_subscriptions rows that may be created
    SubscribedTo,   \* the events of a subscription; nothing updates them
    Changes,        \* life-cycle transactions
    EventOf,        \* the event type a transaction enqueues
    ServiceOf,      \* the service of a subscription, and of the incident a
                    \* transaction changes
    Deletes,        \* DELETE requests
    None            \* no subscription

ASSUME WebhooksAssumption ==
    /\ SubscribedTo \in [Subscriptions -> SUBSET Events]
    /\ EventOf \in [Changes -> Events]
    /\ Changes \cup Subscriptions \subseteq DOMAIN ServiceOf
    /\ None \notin Subscriptions

VARIABLES
    subs,        \* committed subscriptions: "absent", "active" or "gone"
    deliveries,  \* committed delivery rows: status by <<change, subscription>>
    change,      \* the life-cycle transactions: step, and what they enqueue
    known,       \* history: the subscriptions there when a change began
    request      \* the DELETE requests: step, and the subscription

vars == <<subs, deliveries, change, known, request>>

Init ==
    /\ subs = [s \in Subscriptions |-> "absent"]
    /\ deliveries = <<>>
    /\ change = [c \in Changes |-> [pc |-> "idle", enqueue |-> {}]]
    /\ known = [c \in Changes |-> {}]
    /\ request = [d \in Deletes |-> [pc |-> "idle", on |-> None]]

Existing == {s \in Subscriptions : subs[s] = "active"}

\* create_webhook: one INSERT, after the check against VALID_EVENTS.
Create(s) ==
    /\ subs[s] = "absent"
    /\ subs' = [subs EXCEPT ![s] = "active"]
    /\ UNCHANGED <<deliveries, change, known, request>>

-----------------------------------------------------------------------------
(***************************************************************************)
(* Life-cycle transactions.                                                *)
(***************************************************************************)
GotoChange(c, step) == change' = [change EXCEPT ![c].pc = step]

Begin(c) ==
    /\ change[c].pc = "idle"
    /\ GotoChange(c, "enqueue")
    /\ known' = [known EXCEPT ![c] = Existing]
    /\ UNCHANGED <<subs, deliveries, request>>

\* A mistake: one subscription of the event is told, whichever.
OneMatching(c) ==
    LET all == {s \in Existing : ServiceOf[s] = ServiceOf[c] /\ EventOf[c] \in SubscribedTo[s]}
    IN  {s \in all : s = CHOOSE t \in all : TRUE}

Matching(c) ==
    {s \in Existing : ServiceOf[s] = ServiceOf[c] /\ EventOf[c] \in SubscribedTo[s]}

\* enqueue_webhook_deliveries reads the subscriptions; the rows are in memory.
Enqueue(c) ==
    /\ change[c].pc = "enqueue"
    /\ change' = [change EXCEPT ![c] = [pc |-> "flush", enqueue |-> Matching(c)]]
    /\ UNCHANGED <<subs, deliveries, known, request>>

BeingDeleted(s) == \E d \in Deletes : request[d].pc = "commit" /\ request[d].on = s

\* The flush inserts the rows: the foreign key check waits for an uncommitted
\* DELETE, and fails when the subscription is gone (500, the change is undone).
Flush(c) ==
    /\ change[c].pc = "flush"
    /\ \A s \in change[c].enqueue : ~BeingDeleted(s)
    /\ GotoChange(c, IF change[c].enqueue \subseteq Existing THEN "commit" ELSE "failed")
    /\ UNCHANGED <<subs, deliveries, known, request>>

CommitChange(c) ==
    /\ change[c].pc = "commit"
    /\ GotoChange(c, "done")
    /\ deliveries' = [k \in DOMAIN deliveries \cup {<<c, s>> : s \in change[c].enqueue} |->
                        IF k \in DOMAIN deliveries THEN deliveries[k] ELSE "queued"]
    /\ UNCHANGED <<subs, known, request>>

-----------------------------------------------------------------------------
(***************************************************************************)
(* DELETE /services/{id}/webhooks/{webhook_id}.                            *)
(***************************************************************************)
Load(d) ==
    /\ request[d].pc = "idle"
    /\ \E s \in Existing : request' = [request EXCEPT ![d] = [pc |-> "delete", on |-> s]]
    /\ UNCHANGED <<subs, deliveries, change, known>>

\* A mistake: the locks of a transaction outlive it, so that a DELETE waits instead
\* of failing.
LockedForEver(s) == \E c \in Changes : change[c].pc \in {"commit", "done"} /\ s \in change[c].enqueue

\* An uncommitted delivery row, or another DELETE, holds the subscription.
Locked(s) ==
    \/ \E c \in Changes : change[c].pc = "commit" /\ s \in change[c].enqueue
    \/ BeingDeleted(s)

\* A mistake: without the foreign key, deliveries do not hold a subscription.
Unreferenced(s) == FALSE

Referenced(s) == \E c \in Changes : <<c, s>> \in DOMAIN deliveries

\* The flush of db.delete: a subscription with deliveries violates the foreign
\* key (500); one deleted meanwhile matches no row, which is only a warning.
Delete(d) ==
    LET s == request[d].on IN
    /\ request[d].pc = "delete"
    /\ ~Locked(s)
    /\ request' = [request EXCEPT ![d].pc = IF s \in Existing /\ Referenced(s)
                                            THEN "failed" ELSE "commit"]
    /\ UNCHANGED <<subs, deliveries, change, known>>

CommitDelete(d) ==
    /\ request[d].pc = "commit"
    /\ request' = [request EXCEPT ![d].pc = "done"]
    /\ subs' = [subs EXCEPT ![request[d].on] = "gone"]
    /\ UNCHANGED <<deliveries, change, known>>

-----------------------------------------------------------------------------
\* _process_webhook, for a claimed row (the queue itself is NotificationQueue):
\* the lookup decides between sending and dead-lettering.  No operation ever
\* sets active to FALSE.
Deliver(c, s) ==
    /\ <<c, s>> \in DOMAIN deliveries /\ deliveries[<<c, s>>] = "queued"
    /\ deliveries' = [deliveries EXCEPT ![<<c, s>>] = IF s \in Existing THEN "sent" ELSE "dead"]
    /\ UNCHANGED <<subs, change, known, request>>

ChangeStep(c) == Enqueue(c) \/ Flush(c) \/ CommitChange(c)

DeleteStep(d) == Delete(d) \/ CommitDelete(d)

Ended == {"idle", "done", "failed"}

\* The server may stop only when no transaction is under way.
Rest ==
    /\ \A c \in Changes : change[c].pc \in Ended
    /\ \A d \in Deletes : request[d].pc \in Ended
    /\ UNCHANGED vars

Next ==
    \/ \E s \in Subscriptions : Create(s) \/ \E c \in Changes : Deliver(c, s)
    \/ \E c \in Changes : Begin(c) \/ ChangeStep(c)
    \/ \E d \in Deletes : Load(d) \/ DeleteStep(d)
    \/ Rest

Spec == Init /\ [][Next]_vars

-----------------------------------------------------------------------------
(***************************************************************************)
(* Properties.                                                             *)
(***************************************************************************)

\* However a DELETE races with an enqueue, no delivery outlives its
\* subscription, so that the worker never dead-letters one for want of it.
DeliveriesKeepTheirSubscription ==
    \A c \in Changes, s \in Subscriptions :
        <<c, s>> \in DOMAIN deliveries => s \in Existing /\ deliveries[<<c, s>>] # "dead"

\* Whoever subscribed to an event before an incident changed is told of the
\* change, unless the subscription is deleted; and nobody is told of a change
\* of another service's incident, or of an event not subscribed to.
SubscribersAreTold ==
    \A c \in Changes : change[c].pc = "done" =>
        LET told == {s \in Subscriptions : <<c, s>> \in DOMAIN deliveries} IN
        /\ known[c] \cap Matching(c) \subseteq told
        /\ told \subseteq Matching(c)

\* The guards of ChangeStep and DeleteStep.
CanChange(c) ==
    \/ change[c].pc \in {"enqueue", "commit"}
    \/ change[c].pc = "flush" /\ \A s \in change[c].enqueue : ~BeingDeleted(s)

CanDelete(d) ==
    \/ request[d].pc = "commit"
    \/ request[d].pc = "delete" /\ ~Locked(request[d].on)

\* Changes and deletes never wait for each other in a circle: while one of them
\* is under way, one of them can go on.  As each step brings its request nearer
\* to its end, all of them end.
SomebodyMoves ==
    \/ \E c \in Changes : CanChange(c)
    \/ \E d \in Deletes : CanDelete(d)
    \/ /\ \A c \in Changes : change[c].pc \in Ended
       /\ \A d \in Deletes : request[d].pc \in Ended
=============================================================================
