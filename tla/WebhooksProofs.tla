--------------------------- MODULE WebhooksProofs ---------------------------
(***************************************************************************)
(* Proofs about Webhooks, for any number of subscriptions, life-cycle      *)
(* transactions and DELETE requests.                                       *)
(*                                                                         *)
(* Two locks decide.  From its flush to its COMMIT a transaction holds the *)
(* subscriptions it refers to, and a DELETE holds its subscription from    *)
(* its flush to its COMMIT: never both at once (Protected).  After the     *)
(* COMMIT of the transaction its deliveries are there for the foreign key  *)
(* to find, so that no DELETE gets as far as its COMMIT.                   *)
(***************************************************************************)
EXTENDS Webhooks, TLAPS

ChangeRow == [pc : {"idle", "enqueue", "flush", "commit", "done", "failed"},
              enqueue : SUBSET Subscriptions]

RequestRow == [pc : {"idle", "delete", "commit", "done", "failed"},
               on : Subscriptions \cup {None}]

TypeOK ==
    /\ subs \in [Subscriptions -> {"absent", "active", "gone"}]
    /\ change \in [Changes -> ChangeRow]
    /\ known \in [Changes -> SUBSET Subscriptions]
    /\ request \in [Deletes -> RequestRow]
    /\ \A d \in Deletes : request[d].pc \in {"delete", "commit"} =>
          request[d].on \in Subscriptions /\ subs[request[d].on] # "absent"

\* The deliveries are those of the committed transactions, and none is dead.
DeliveriesAre ==
    /\ DOMAIN deliveries =
         {k \in Changes \X Subscriptions : change[k[1]].pc = "done" /\ k[2] \in change[k[1]].enqueue}
    /\ \A k \in DOMAIN deliveries : deliveries[k] # "dead"

\* What a transaction has flushed refers to subscriptions that are there, and
\* that nobody is about to delete.
Protected ==
    \A c \in Changes : change[c].pc \in {"commit", "done"} =>
        \A s \in change[c].enqueue : s \in Existing /\ ~BeingDeleted(s)

\* A transaction enqueues for those, and only those, who subscribed to its
\* event; whoever was there before it began has been there when it looked.
Enqueued ==
    \A c \in Changes :
        /\ \A s \in known[c] : subs[s] # "absent"
        /\ change[c].pc \in {"flush", "commit", "done"} =>
             /\ known[c] \cap Matching(c) \subseteq change[c].enqueue
             /\ \A s \in change[c].enqueue :
                   ServiceOf[s] = ServiceOf[c] /\ EventOf[c] \in SubscribedTo[s]

Inv == TypeOK /\ DeliveriesAre /\ Protected /\ Enqueued

-----------------------------------------------------------------------------
LEMMA InitInv == Init => Inv
BY WebhooksAssumption
   DEF Init, Inv, TypeOK, ChangeRow, RequestRow, DeliveriesAre, Protected, Enqueued

LEMMA CreateInv ==
    ASSUME Inv, NEW s \in Subscriptions, Create(s)
    PROVE  Inv'
<1>. USE DEF Create
<1>1. TypeOK'
  BY DEF Inv, TypeOK
<1>2. DeliveriesAre'
  BY DEF Inv, DeliveriesAre
<1>3. Protected'
  BY DEF Inv, TypeOK, Protected, Existing, BeingDeleted
<1>4. Enqueued'
  BY DEF Inv, TypeOK, Enqueued, Matching, Existing
<1>. QED  BY <1>1, <1>2, <1>3, <1>4 DEF Inv

LEMMA BeginInv ==
    ASSUME Inv, NEW c \in Changes, Begin(c)
    PROVE  Inv'
<1>. USE DEF Begin, GotoChange
<1>1. TypeOK'
  BY DEF Inv, TypeOK, ChangeRow, Existing
<1>2. DeliveriesAre'
  BY DEF Inv, TypeOK, ChangeRow, DeliveriesAre
<1>3. Protected'
  BY DEF Inv, TypeOK, ChangeRow, Protected, Existing, BeingDeleted
<1>4. Enqueued'
  BY DEF Inv, TypeOK, ChangeRow, Enqueued, Matching, Existing
<1>. QED  BY <1>1, <1>2, <1>3, <1>4 DEF Inv

LEMMA EnqueueInv ==
    ASSUME Inv, NEW c \in Changes, Enqueue(c)
    PROVE  Inv'
<1>. USE DEF Enqueue
<1>1. TypeOK'
  BY DEF Inv, TypeOK, ChangeRow, Matching, Existing
<1>2. DeliveriesAre'
  BY DEF Inv, TypeOK, ChangeRow, DeliveriesAre
<1>3. Protected'
  BY DEF Inv, TypeOK, ChangeRow, Protected, Existing, BeingDeleted
<1>4. Enqueued'
  BY DEF Inv, TypeOK, ChangeRow, Enqueued, Matching, Existing
<1>. QED  BY <1>1, <1>2, <1>3, <1>4 DEF Inv

LEMMA FlushInv ==
    ASSUME Inv, NEW c \in Changes, Flush(c)
    PROVE  Inv'
<1>. USE DEF Flush, GotoChange
<1>1. TypeOK'
  BY DEF Inv, TypeOK, ChangeRow
<1>2. DeliveriesAre'
  BY DEF Inv, TypeOK, ChangeRow, DeliveriesAre
<1>3. Protected'
  BY DEF Inv, TypeOK, ChangeRow, Protected, Existing, BeingDeleted
<1>4. Enqueued'
  BY DEF Inv, TypeOK, ChangeRow, Enqueued, Matching, Existing
<1>. QED  BY <1>1, <1>2, <1>3, <1>4 DEF Inv

LEMMA CommitChangeInv ==
    ASSUME Inv, NEW c \in Changes, CommitChange(c)
    PROVE  Inv'
<1>. USE DEF CommitChange, GotoChange
<1>1. TypeOK'
  BY DEF Inv, TypeOK, ChangeRow
<1>2. DeliveriesAre'
  <2>1. DOMAIN deliveries' = DOMAIN deliveries \cup {<<c, s>> : s \in change[c].enqueue}
    OBVIOUS
  <2>2. \A k \in DOMAIN deliveries' : deliveries'[k] # "dead"
    BY DEF Inv, DeliveriesAre
  <2>3. /\ change'[c].pc = "done" /\ change'[c].enqueue = change[c].enqueue
        /\ change[c].pc # "done" /\ change[c].enqueue \subseteq Subscriptions
        /\ \A b \in Changes \ {c} : change'[b] = change[b]
    BY DEF Inv, TypeOK, ChangeRow
  <2>4. \A b \in Changes, s \in Subscriptions :
           <<b, s>> \in DOMAIN deliveries' <=> change'[b].pc = "done" /\ s \in change'[b].enqueue
    BY <2>1, <2>3 DEF Inv, DeliveriesAre
  <2>5. DOMAIN deliveries' \subseteq Changes \X Subscriptions
    BY <2>1, <2>3 DEF Inv, DeliveriesAre
  <2>6. \A k \in Changes \X Subscriptions :
           k = <<k[1], k[2]>> /\ k[1] \in Changes /\ k[2] \in Subscriptions
    OBVIOUS
  <2>7. DOMAIN deliveries' = {k \in Changes \X Subscriptions :
                                 change'[k[1]].pc = "done" /\ k[2] \in change'[k[1]].enqueue}
    <3>. HIDE DEF CommitChange
    <3>. QED  BY <2>4, <2>5, <2>6
  <2>. QED  BY <2>2, <2>7 DEF DeliveriesAre
<1>3. Protected'
  BY DEF Inv, TypeOK, ChangeRow, Protected, Existing, BeingDeleted
<1>4. Enqueued'
  BY DEF Inv, TypeOK, ChangeRow, Enqueued, Matching, Existing
<1>. QED  BY <1>1, <1>2, <1>3, <1>4 DEF Inv

LEMMA LoadInv ==
    ASSUME Inv, NEW d \in Deletes, Load(d)
    PROVE  Inv'
<1>. USE DEF Load
<1>1. TypeOK'
  BY DEF Inv, TypeOK, RequestRow, Existing
<1>2. DeliveriesAre'
  BY DEF Inv, DeliveriesAre
<1>3. Protected'
  BY DEF Inv, TypeOK, RequestRow, Protected, Existing, BeingDeleted
<1>4. Enqueued'
  BY DEF Inv, Enqueued, Matching, Existing
<1>. QED  BY <1>1, <1>2, <1>3, <1>4 DEF Inv

LEMMA DeleteInv ==
    ASSUME Inv, NEW d \in Deletes, Delete(d)
    PROVE  Inv'
<1>1. TypeOK'
  BY DEF Inv, TypeOK, RequestRow, Delete
<1>2. DeliveriesAre'
  BY DEF Inv, DeliveriesAre, Delete
<1>3. Protected'
  <2> SUFFICES ASSUME NEW c \in Changes, change[c].pc \in {"commit", "done"},
                      NEW s \in change[c].enqueue
               PROVE  s \in Existing' /\ ~BeingDeleted(s)'
    BY DEF Protected, Delete
  <2>1. s \in Existing /\ ~BeingDeleted(s)
    BY DEF Inv, Protected
  <2>2. s \in Subscriptions
    BY DEF Existing, Inv, TypeOK, ChangeRow
  <2>3. CASE request[d].on # s
    BY <2>1, <2>3 DEF Delete, Existing, BeingDeleted, Inv, TypeOK, RequestRow
  <2>4. CASE request[d].on = s
    <3>1. change[c].pc = "done"
      BY <2>4 DEF Delete, Locked
    <3>2. <<c, s>> \in DOMAIN deliveries
      BY <2>2, <3>1 DEF Inv, DeliveriesAre
    <3>3. request' = [request EXCEPT ![d].pc = "failed"]
      BY <2>1, <2>4, <3>2 DEF Delete, Referenced
    <3>. QED  BY <2>1, <3>3 DEF Delete, Existing, BeingDeleted, Inv, TypeOK, RequestRow
  <2>. QED  BY <2>3, <2>4
<1>4. Enqueued'
  BY DEF Inv, Enqueued, Matching, Existing, Delete
<1>. QED  BY <1>1, <1>2, <1>3, <1>4 DEF Inv

LEMMA CommitDeleteInv ==
    ASSUME Inv, NEW d \in Deletes, CommitDelete(d)
    PROVE  Inv'
<1>. USE DEF CommitDelete
<1>1. TypeOK'
  BY DEF Inv, TypeOK, RequestRow
<1>2. DeliveriesAre'
  BY DEF Inv, DeliveriesAre
<1>3. Protected'
  BY DEF Inv, TypeOK, RequestRow, Protected, Existing, BeingDeleted
<1>4. Enqueued'
  BY DEF Inv, TypeOK, RequestRow, Enqueued, Matching, Existing
<1>. QED  BY <1>1, <1>2, <1>3, <1>4 DEF Inv

LEMMA DeliverInv ==
    ASSUME Inv, NEW c \in Changes, NEW s \in Subscriptions, Deliver(c, s)
    PROVE  Inv'
<1>. USE DEF Deliver
<1>1. TypeOK'
  BY DEF Inv, TypeOK
<1>2. s \in Existing
  BY DEF Inv, DeliveriesAre, Protected
<1>3. DeliveriesAre'
  BY <1>2 DEF Inv, DeliveriesAre
<1>4. Protected' /\ Enqueued'
  BY DEF Inv, Protected, Existing, BeingDeleted, Enqueued, Matching
<1>. QED  BY <1>1, <1>3, <1>4 DEF Inv

LEMMA NextInv == Inv /\ [Next]_vars => Inv'
<1> SUFFICES ASSUME Inv, [Next]_vars PROVE Inv'
  OBVIOUS
<1>1. ASSUME NEW c \in Changes, Begin(c) \/ ChangeStep(c) PROVE Inv'
  BY <1>1, BeginInv, EnqueueInv, FlushInv, CommitChangeInv DEF ChangeStep
<1>2. ASSUME NEW d \in Deletes, Load(d) \/ DeleteStep(d) PROVE Inv'
  BY <1>2, LoadInv, DeleteInv, CommitDeleteInv DEF DeleteStep
<1>3. CASE UNCHANGED vars
  BY <1>3 DEF vars, Inv, TypeOK, DeliveriesAre, Protected, Enqueued, Existing, BeingDeleted, Matching
<1>. QED  BY <1>1, <1>2, <1>3, CreateInv, DeliverInv DEF Next, Rest

LEMMA Invariance == Spec => []Inv
BY InitInv, NextInv, PTL DEF Spec

\* Every delivery refers to a subscription that is there, and the worker never
\* dead-letters one because it is not.
THEOREM DeliveriesAreKept == Spec => []DeliveriesKeepTheirSubscription
<1>1. Inv => DeliveriesKeepTheirSubscription
  BY DEF Inv, DeliveriesAre, Protected, DeliveriesKeepTheirSubscription
<1>. QED  BY <1>1, Invariance, PTL

\* A committed change is told to everybody who had subscribed to it before and
\* still is, and to nobody else.
THEOREM SubscribersHear == Spec => []SubscribersAreTold
<1>1. ASSUME Inv, NEW c \in Changes, change[c].pc = "done"
      PROVE  LET told == {s \in Subscriptions : <<c, s>> \in DOMAIN deliveries}
             IN  known[c] \cap Matching(c) \subseteq told /\ told \subseteq Matching(c)
  <2>1. {s \in Subscriptions : <<c, s>> \in DOMAIN deliveries} = change[c].enqueue
    BY <1>1 DEF Inv, TypeOK, ChangeRow, DeliveriesAre
  <2>2. known[c] \cap Matching(c) \subseteq change[c].enqueue
    BY <1>1 DEF Inv, Enqueued
  <2>3. change[c].enqueue \subseteq Matching(c)
    BY <1>1 DEF Inv, Enqueued, Protected, Matching
  <2>. QED  BY <2>1, <2>2, <2>3
<1>2. Inv => SubscribersAreTold
  BY <1>1 DEF SubscribersAreTold
<1>. QED  BY <1>2, Invariance, PTL
\* Changes and deletes never all wait: whoever is about to commit can, and when
\* nobody is, no subscription is locked.
THEOREM NobodyStandsStill == Spec => []SomebodyMoves
<1>1. ASSUME TypeOK, \A c \in Changes : ~CanChange(c), \A d \in Deletes : ~CanDelete(d)
      PROVE  /\ \A c \in Changes : change[c].pc \in Ended
             /\ \A d \in Deletes : request[d].pc \in Ended
  <2>1. \A s : ~BeingDeleted(s)
    BY <1>1 DEF CanDelete, BeingDeleted
  <2>2. \A c \in Changes : change[c].pc \notin {"enqueue", "flush", "commit"}
    BY <1>1, <2>1 DEF CanChange
  <2>3. \A s : ~Locked(s)
    BY <2>1, <2>2 DEF Locked
  <2>4. \A d \in Deletes : request[d].pc \notin {"delete", "commit"}
    BY <1>1, <2>3 DEF CanDelete
  <2>. QED  BY <1>1, <2>2, <2>4 DEF TypeOK, ChangeRow, RequestRow, Ended
<1>2. Inv => SomebodyMoves
  BY <1>1 DEF Inv, SomebodyMoves
<1>. QED  BY <1>2, Invariance, PTL
=============================================================================
