-------------------------- MODULE IncidentContract --------------------------
(***************************************************************************)
(* What an incident promises, with every operation atomic: it is           *)
(* triggered, perhaps acknowledged, perhaps resolved, and never goes back; *)
(* while it is triggered, and only then, its escalation takes one step     *)
(* after the other, each once.  Nothing here knows about rows, sessions,   *)
(* stale copies, locks, workers or the columns that count rules and loops. *)
(***************************************************************************)
EXTENDS Naturals

CONSTANTS Incidents, People, None, NumRules, NumLoops, Resolvable

VARIABLE incident

\* A policy is run through NumLoops times, and one without rules has nobody to
\* escalate to.  An incident without a policy, whoever wrote it, is escalated
\* once, to the secondary on-call.
Plans == {"policy", "empty", "legacy"}

New(plan, pages) ==
    [status |-> "triggered", plan |-> plan, armed |-> plan = "policy", steps |-> 0,
     pages |-> pages, acknowledgedBy |-> None, resolvedBy |-> None]

\* An incident may have been handled before anything is looked at.
Seeds ==
    LET new == New("legacy", 0) IN
    {new} \cup UNION {{[new EXCEPT !.status = "acknowledged", !.acknowledgedBy = p],
                       [new EXCEPT !.status = "resolved", !.acknowledgedBy = p,
                                   !.resolvedBy = p]} : p \in People}

Init == incident \in [Incidents -> {None} \cup Seeds]

Trigger(i) ==
    /\ incident[i] = None
    /\ \E plan \in Plans, pages \in {0, 1} : incident'[i] = New(plan, pages)

Triggered(i) == incident[i] # None /\ incident[i].status = "triggered"

PageFor(step) == IF step % NumRules \in Resolvable THEN 1 ELSE 0

\* The next rule of the policy is paged; after the last one nothing is.
Escalate(i) ==
    LET step == incident[i].steps + 1
        last == step = NumRules * NumLoops IN
    /\ Triggered(i) /\ incident[i].armed
    /\ incident'[i] = [incident[i] EXCEPT !.steps = step, !.armed = ~last,
                                          !.pages = @ + IF last THEN 0 ELSE PageFor(step)]

\* Whether and when is not promised here: there may be no secondary on-call.
EscalateLegacy(i) ==
    /\ Triggered(i) /\ incident[i].plan = "legacy" /\ incident[i].steps = 0
    /\ incident'[i] = [incident[i] EXCEPT !.steps = 1, !.pages = @ + 1]

Acknowledge(i) ==
    /\ Triggered(i)
    /\ \E p \in People :
         incident'[i] = [incident[i] EXCEPT !.status = "acknowledged", !.armed = FALSE,
                                            !.acknowledgedBy = p]

\* By a person, or by the source of the alert.
Resolve(i) ==
    /\ incident[i] # None /\ incident[i].status # "resolved"
    /\ \E p \in People \cup {None} :
         incident'[i] = [incident[i] EXCEPT !.status = "resolved", !.armed = FALSE,
                                            !.resolvedBy = p]

\* Incidents are independent; an escalation pass moves several at once.
Next ==
    \A i \in Incidents :
        \/ UNCHANGED incident[i]
        \/ Trigger(i)
        \/ Escalate(i)
        \/ EscalateLegacy(i)
        \/ Acknowledge(i)
        \/ Resolve(i)

Spec == Init /\ [][Next]_incident
=============================================================================
