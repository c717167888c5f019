--------------------------------- MODULE OnCall ---------------------------------
(***************************************************************************)
(* Who is on call for one schedule: its layers and overrides, the requests *)
(* that change them, and resolve_oncall as an operator of the time asked   *)
(* about.  Every request is a transaction of its own here; what a request  *)
(* sees that reads while another one replaces the layers is in PolicyAdmin.*)
(***************************************************************************)
EXTENDS Integers, Sequences, FiniteSets, SequencesExt

CONSTANTS
    User,
    Starts,        \* values of rotation_virtual_start
    TurnLengths,   \* values of rotation_turn_length_seconds, in ticks
    Rotations,     \* the user lists a layer may carry
    Bounds,        \* values of start_time and end_time of overrides
    MaxLayers,
    MaxOverrides,
    Horizon,       \* properties look at the times 0..Horizon
    Nobody         \* no coverage

ASSUME OnCallAssumption ==
    /\ Nobody \notin User
    /\ Starts \union Bounds \subseteq Nat
    /\ TurnLengths \subseteq Nat \ {0}
    /\ Rotations \subseteq Seq(User) \ {<<>>}
    /\ MaxLayers \in Nat /\ MaxOverrides \in Nat /\ Horizon \in Nat

VARIABLES
    layers,     \* in order of position: the first has the highest priority
    overrides   \* in order of created_at

Layer == [start : Starts, turn : TurnLengths, users : Rotations]
Override == [user : User, from : Bounds, to : Bounds]

Times == 0..Horizon

-----------------------------------------------------------------------------
(* resolve_oncall.                                                         *)

\* A mistake: the end of an override still counts.
ActiveToTheEnd(o, at) == o.from <= at /\ at <= o.to

Active(o, at) == o.from <= at /\ at < o.to

ActiveOverrides(at) == {i \in DOMAIN overrides : Active(overrides[i], at)}

\* A mistake: every turn is a tick too long.
TurnIndexLate(l, at) == (at - l.start) \div (l.turn + 1)

\* Full turns since the rotation began.
TurnIndex(l, at) == (at - l.start) \div l.turn

LayerUser(l, at) == l.users[(TurnIndex(l, at) % Len(l.users)) + 1]

StartedLayers(at) == {i \in DOMAIN layers : layers[i].start <= at}

\* A mistake: the oldest override wins.
ResolveOldest(at) ==
    IF ActiveOverrides(at) # {} THEN overrides[Min(ActiveOverrides(at))].user
    ELSE IF StartedLayers(at) # {} THEN LayerUser(layers[Min(StartedLayers(at))], at)
    ELSE Nobody

\* The newest active override, or else the first layer that has begun.
ResolveOncall(at) ==
    IF ActiveOverrides(at) # {} THEN overrides[Max(ActiveOverrides(at))].user
    ELSE IF StartedLayers(at) # {} THEN LayerUser(layers[Min(StartedLayers(at))], at)
    ELSE Nobody

-----------------------------------------------------------------------------
(* The requests.                                                           *)

ValidRange(from, to) == to > from

CreateOverride(o) ==
    /\ Len(overrides) < MaxOverrides
    /\ ValidRange(o.from, o.to)
    /\ overrides' = Append(overrides, o)
    /\ UNCHANGED layers

DeleteOverride(i) ==
    /\ overrides' = RemoveAt(overrides, i)
    /\ UNCHANGED layers

\* create_schedule, and update_schedule when the body carries layers.
ReplaceLayers ==
    /\ layers' \in UNION {[1..n -> Layer] : n \in 0..MaxLayers}
    /\ UNCHANGED overrides

NothingPlanned == layers = <<>> /\ overrides = <<>>

Request ==
    \/ \E o \in Override : CreateOverride(o)
    \/ \E i \in DOMAIN overrides : DeleteOverride(i)
    \/ ReplaceLayers

Plans == <<layers, overrides>>

OnCallSpec == NothingPlanned /\ [][Request]_Plans

-----------------------------------------------------------------------------
(* Properties.                                                             *)

\* The tables hold layers and overrides, and no override is empty or reversed.
PlansOK ==
    /\ layers \in Seq(Layer) /\ Len(layers) <= MaxLayers
    /\ overrides \in Seq(Override) /\ Len(overrides) <= MaxOverrides
    /\ \A i \in DOMAIN overrides : overrides[i].from < overrides[i].to

\* The user whose turn contains the time, found by the turns' intervals.
OnTurn(l, at) ==
    {l.users[(k % Len(l.users)) + 1] :
        k \in {k \in 0..at : /\ l.start + k * l.turn <= at
                             /\ at < l.start + (k + 1) * l.turn}}

\* What each layer, from the lowest priority to the highest, and then each
\* override, from the oldest to the newest, has to say: one user or nobody.
Answers(at) ==
    [n \in 1..(Len(layers) + Len(overrides)) |->
        IF n <= Len(layers) THEN OnTurn(layers[Len(layers) - n + 1], at)
        ELSE LET o == overrides[n - Len(layers)]
             IN  IF Active(o, at) THEN {o.user} ELSE {}]

\* README, Architecture: "On-call resolution walks layers bottom-up, then checks
\* overrides".  What is said replaces what was said before.
Walk(at) ==
    LET said[n \in 0..(Len(layers) + Len(overrides))] ==
            IF n = 0 THEN {}
            ELSE IF Answers(at)[n] = {} THEN said[n - 1] ELSE Answers(at)[n]
    IN  said[Len(layers) + Len(overrides)]

\* resolve_oncall looks from the top and stops at the first answer; README tells
\* it from the bottom.  Whatever overrides and layers overlap, both name the same
\* user, or nobody.
AsDocumented ==
    \A at \in Times :
        ResolveOncall(at) = IF Walk(at) = {} THEN Nobody
                            ELSE CHOOSE u \in User : Walk(at) = {u}

\* A rotation is fair: in any stretch of time as long as one round, beginning at
\* any moment after the rotation began, a user is on call one turn for each time
\* the layer lists them.
EqualTurns ==
    \A i \in DOMAIN layers :
        LET l == layers[i]
            round == l.turn * Len(l.users)
        IN  \A from \in l.start..Horizon, u \in User :
                Cardinality({at \in from..(from + round - 1) : LayerUser(l, at) = u})
                  = l.turn * Cardinality({k \in DOMAIN l.users : l.users[k] = u})

\* Creating or deleting an override changes who is on call during that override
\* and at no other time, and while a new one is active its user is on call, even
\* when it overlaps older ones.
OverridesAreLocal ==
    [][/\ \A o \in Override : CreateOverride(o) =>
            \A at \in Times :
                ResolveOncall(at)' = IF o.from <= at /\ at < o.to
                                     THEN o.user ELSE ResolveOncall(at)
       /\ \A i \in DOMAIN overrides : DeleteOverride(i) =>
            \A at \in Times :
                ResolveOncall(at)' # ResolveOncall(at) =>
                    overrides[i].from <= at /\ at < overrides[i].to]_Plans

=============================================================================
