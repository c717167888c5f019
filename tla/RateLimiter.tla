----------------------------- MODULE RateLimiter ----------------------------
(***************************************************************************)
(* The rate limiter of an API process: a sliding window over the times of  *)
(* the admitted requests of each client, kept in the memory of the         *)
(* process.  dispatch awaits nothing before it has recorded the request,   *)
(* so that the requests of one process go through it one after the other.  *)
(***************************************************************************)
EXTENDS Integers, FiniteSets

CONSTANTS
    Clients,      \* client addresses
    Limit,        \* rate_limit_per_minute
    Window,       \* 60 seconds
    MaxTime,      \* bound on the clock
    MaxRestarts,  \* bound on restarts of the process
    None          \* no answer yet

ASSUME RateLimiterAssumption ==
    /\ Limit \in Nat \ {0}
    /\ Window \in Nat \ {0}
    /\ MaxTime \in Nat /\ MaxRestarts \in Nat

VARIABLES
    now,        \* time.time(), taken never to go back
    requests,   \* self._requests: the recorded times of each client, a list whose
                \* order nothing depends on; the other fields of a stamp tell
                \* equal times apart
    restarts,
    admitted,   \* history: the requests of each client that were let through
    answer      \* the last answer: whom, and the status code

vars == <<now, requests, restarts, admitted, answer>>

\* When, in which life of the process, and as which of its client's.
Stamp == [time : Nat, life : Nat, nth : Nat]

Init ==
    /\ now = 0
    /\ requests = [c \in Clients |-> {}]
    /\ restarts = 0
    /\ admitted = [c \in Clients |-> {}]
    /\ answer = None

Tick ==
    /\ now < MaxTime
    /\ now' = now + 1
    /\ answer' = None
    /\ UNCHANGED <<requests, restarts, admitted>>

FreshInclusive(stamps) == {a \in stamps : a.time >= now - Window}

\* "Clean old entries": a request that is exactly one window old is dropped.
Fresh(stamps) == {a \in stamps : a.time > now - Window}

FullLate(stamps) == Cardinality(stamps) > Limit

Full(stamps) == Cardinality(stamps) >= Limit

NewStamp(c) == [time |-> now, life |-> restarts, nth |-> Cardinality(admitted[c])]

Admit(c) ==
    /\ ~Full(Fresh(requests[c]))
    /\ requests' = [requests EXCEPT ![c] = Fresh(@) \cup {NewStamp(c)}]
    /\ admitted' = [admitted EXCEPT ![c] = @ \cup {NewStamp(c)}]
    /\ answer' = [client |-> c, code |-> 200]
    /\ UNCHANGED <<now, restarts>>

\* A refused request is not recorded: asking again does not extend the wait.
Refuse(c) ==
    /\ Full(Fresh(requests[c]))
    /\ requests' = [requests EXCEPT ![c] = Fresh(@)]
    /\ answer' = [client |-> c, code |-> 429]
    /\ UNCHANGED <<now, restarts, admitted>>

\* The process is restarted and starts with an empty dictionary.
Restart ==
    /\ restarts < MaxRestarts
    /\ restarts' = restarts + 1
    /\ requests' = [c \in Clients |-> {}]
    /\ answer' = None
    /\ UNCHANGED <<now, admitted>>

Next == Tick \/ Restart \/ \E c \in Clients : Admit(c) \/ Refuse(c)

Spec == Init /\ [][Next]_vars

-----------------------------------------------------------------------------
(***************************************************************************)
(* Properties.                                                             *)
(***************************************************************************)

\* Every variable keeps its type, and no stamp is of the future.
TypeOK ==
    /\ now \in 0 .. MaxTime
    /\ restarts \in 0 .. MaxRestarts
    /\ requests \in [Clients -> SUBSET Stamp]
    /\ admitted \in [Clients -> SUBSET Stamp]
    /\ \A c \in Clients : IsFiniteSet(admitted[c])
    /\ \A c \in Clients : \A a \in admitted[c] :
          a.time <= now /\ a.life <= restarts /\ a.nth < Cardinality(admitted[c])

\* The requests of c that one life of the process let through in the window
\* that ends at t.
Passed(c, life, t) ==
    {a \in admitted[c] : a.life = life /\ a.time \in t - Window + 1 .. t}

\* In no window, wherever it begins, does a client get more than Limit requests
\* through - except as often again for every restart that falls into it, for
\* that is where the count is lost.
WindowBound ==
    \A c \in Clients, life \in 0 .. MaxRestarts, t \in 0 .. MaxTime :
        Cardinality(Passed(c, life, t)) <= Limit

\* A client is refused only if it had Limit requests answered within the last
\* window: neither its refused requests nor those of other clients count.
RefusedOnlyWhenFull ==
    answer # None /\ answer.code = 429 =>
        Cardinality(Passed(answer.client, restarts, now)) = Limit

\* What the process remembers of a client is what it let through since it was
\* started, all of the last window and perhaps some from before.
Remembered ==
    \A c \in Clients :
        /\ \A a \in requests[c] : a \in admitted[c] /\ a.life = restarts
        /\ \A a \in admitted[c] :
              a.life = restarts /\ a.time > now - Window => a \in requests[c]
=============================================================================
