----------------------------- MODULE ClockProofs ----------------------------
(***************************************************************************)
(* Proofs about the two components that compute with times: RateLimiter,   *)
(* for any number of clients, any limit, window, length of the run and     *)
(* number of restarts; and OnCall, for any users, rotations, turn lengths, *)
(* instants, numbers of layers and overrides.  They share no state.        *)
(***************************************************************************)
EXTENDS RateLimiter, OnCall, FiniteSetTheorems, SequenceTheorems,
        WellFoundedInduction, TLAPS

(***************************************************************************)
(* RateLimiter.  The limiter counts what it remembers; the bound is about  *)
(* what it let through.  Remembered connects the two: within the window    *)
(* before now they are the same requests.  The bound for a window that     *)
(* ends at t then survives an admission at now, because the requests of    *)
(* that window that were there before it are among those the limiter has   *)
(* just counted.                                                           *)
(***************************************************************************)
Inv ==
    /\ TypeOK
    /\ Remembered
    /\ WindowBound

-----------------------------------------------------------------------------
\* What the limiter counts is what this life let through in the window that
\* ends now.
LEMMA FreshIsPassed ==
    ASSUME TypeOK, Remembered, NEW c \in Clients
    PROVE  Fresh(requests[c]) = Passed(c, restarts, now)
<1>1. \A a \in admitted[c] : a.time \in Nat /\ a.time <= now
  BY DEF TypeOK, Stamp
<1>2. now \in Nat
  BY RateLimiterAssumption DEF TypeOK
<1>3. \A a \in admitted[c] : a.time > now - Window <=> a.time \in now - Window + 1 .. now
  BY <1>1, <1>2, RateLimiterAssumption
<1>. QED  BY <1>3 DEF Fresh, Passed, Remembered

LEMMA PassedFinite ==
    ASSUME TypeOK, NEW c \in Clients, NEW life, NEW t
    PROVE  /\ IsFiniteSet(Passed(c, life, t))
           /\ Cardinality(Passed(c, life, t)) \in Nat
<1>1. IsFiniteSet(admitted[c])
  BY DEF TypeOK
<1>2. Passed(c, life, t) \in SUBSET admitted[c]
  BY DEF Passed
<1>. QED  BY <1>1, <1>2, FS_Subset, FS_CardinalityType

LEMMA CardinalityOfAdmitted ==
    ASSUME TypeOK, NEW c \in Clients
    PROVE  Cardinality(admitted[c]) \in Nat
BY FS_CardinalityType DEF TypeOK

\* Nothing that was let through already is the same request.
LEMMA NewStampIsNew ==
    ASSUME TypeOK, NEW c \in Clients
    PROVE  NewStamp(c) \in Stamp /\ NewStamp(c) \notin admitted[c]
<1>1. NewStamp(c) \in Stamp
  BY CardinalityOfAdmitted, RateLimiterAssumption DEF NewStamp, Stamp, TypeOK
<1>2. \A a \in admitted[c] : a.nth \in Nat /\ a.nth < Cardinality(admitted[c])
  BY DEF TypeOK, Stamp
<1>. QED  BY <1>1, <1>2, CardinalityOfAdmitted DEF NewStamp

-----------------------------------------------------------------------------
LEMMA InitInv == Init => Inv
<1> SUFFICES ASSUME Init PROVE Inv
  OBVIOUS
<1>1. TypeOK
  BY RateLimiterAssumption, FS_EmptySet DEF Init, TypeOK
<1>2. Remembered
  BY DEF Init, Remembered
<1>3. WindowBound
  <2> SUFFICES ASSUME NEW c \in Clients, NEW life, NEW t
               PROVE  Cardinality(Passed(c, life, t)) <= Limit
    BY DEF WindowBound
  <2>1. Passed(c, life, t) = {}
    BY DEF Init, Passed
  <2>. QED  BY <2>1, FS_EmptySet, RateLimiterAssumption
<1>. QED  BY <1>1, <1>2, <1>3 DEF Inv

\* A step that lets nobody through keeps the bound.
LEMMA SameAdmitted ==
    ASSUME WindowBound, UNCHANGED admitted
    PROVE  WindowBound'
BY DEF WindowBound, Passed

LEMMA TickInv ==
    ASSUME Inv, Tick
    PROVE  Inv'
<1>1. TypeOK'
  BY RateLimiterAssumption DEF Inv, TypeOK, Tick, Stamp
<1>2. Remembered'
  <2>1. now' = now + 1 /\ now \in Int /\ Window \in Int
    BY RateLimiterAssumption DEF Inv, TypeOK, Tick
  <2>2. \A c \in Clients : \A a \in admitted[c] :
           a.time \in Int /\ (a.time > now' - Window => a.time > now - Window)
    BY <2>1 DEF Inv, TypeOK, Stamp
  <2>. QED  BY <2>2 DEF Inv, Remembered, Tick
<1>. QED  BY <1>1, <1>2, SameAdmitted DEF Inv, Tick

LEMMA RestartInv ==
    ASSUME Inv, Restart
    PROVE  Inv'
<1>1. TypeOK'
  BY RateLimiterAssumption DEF Inv, TypeOK, Restart, Stamp
<1>2. \A c \in Clients : \A a \in admitted[c] : a.life # restarts'
  BY RateLimiterAssumption DEF Inv, TypeOK, Restart, Stamp
<1>3. Remembered'
  BY <1>2 DEF Remembered, Restart
<1>. QED  BY <1>1, <1>3, SameAdmitted DEF Inv, Restart

LEMMA RefuseInv ==
    ASSUME Inv, NEW c \in Clients, Refuse(c)
    PROVE  Inv'
<1>1. TypeOK'
  BY DEF Inv, TypeOK, Refuse, Fresh
<1>2. Remembered'
  BY DEF Inv, TypeOK, Remembered, Refuse, Fresh
<1>. QED  BY <1>1, <1>2, SameAdmitted DEF Inv, Refuse

LEMMA AdmitInv ==
    ASSUME Inv, NEW c \in Clients, Admit(c)
    PROVE  Inv'
<1> DEFINE new == NewStamp(c)
<1>. TypeOK /\ Remembered /\ WindowBound
  BY DEF Inv
<1>1. /\ new \in Stamp /\ new \notin admitted[c]
      /\ new.time = now /\ new.life = restarts /\ new.nth = Cardinality(admitted[c])
  BY NewStampIsNew DEF NewStamp
<1>2. /\ admitted'[c] = admitted[c] \cup {new}
      /\ requests'[c] = Fresh(requests[c]) \cup {new}
      /\ \A d \in Clients \ {c} : admitted'[d] = admitted[d] /\ requests'[d] = requests[d]
      /\ UNCHANGED <<now, restarts>>
  BY DEF Admit, TypeOK
<1>3. /\ IsFiniteSet(admitted'[c])
      /\ Cardinality(admitted'[c]) = Cardinality(admitted[c]) + 1
  <2>1. IsFiniteSet(admitted[c])
    BY DEF TypeOK
  <2>. HIDE DEF new
  <2>2. /\ IsFiniteSet(admitted[c] \cup {new})
        /\ Cardinality(admitted[c] \cup {new}) = Cardinality(admitted[c]) + 1
    BY <1>1, <2>1, FS_AddElement
  <2>. QED  BY <1>2, <2>2
<1> HIDE DEF new
<1>4. TypeOK'
  <2>1. admitted' \in [Clients -> SUBSET Stamp] /\ requests' \in [Clients -> SUBSET Stamp]
    BY <1>1 DEF TypeOK, Admit, Fresh, new
  <2>2. \A d \in Clients : IsFiniteSet(admitted'[d])
    BY <1>2, <1>3 DEF TypeOK
  <2>3. ASSUME NEW d \in Clients, NEW a \in admitted'[d]
        PROVE  a.time <= now /\ a.life <= restarts /\ a.nth < Cardinality(admitted'[d])
    <3>1. CASE a \in admitted[d]
      <4>1. /\ a.nth \in Nat /\ a.nth < Cardinality(admitted[d])
            /\ a.time <= now /\ a.life <= restarts
        BY <3>1 DEF TypeOK, Stamp
      <4>2. Cardinality(admitted[d]) \in Nat
        BY CardinalityOfAdmitted
      <4>3. Cardinality(admitted'[d]) \in {Cardinality(admitted[d]), Cardinality(admitted[d]) + 1}
        BY <1>2, <1>3
      <4>. QED  BY <4>1, <4>2, <4>3
    <3>2. CASE a \notin admitted[d]
      <4>1. d = c /\ a = new
        BY <1>2, <2>3, <3>2
      <4>2. now \in Nat /\ restarts \in Nat /\ Cardinality(admitted[c]) \in Nat
        BY CardinalityOfAdmitted, RateLimiterAssumption DEF TypeOK
      <4>. QED  BY <1>1, <1>3, <4>1, <4>2
    <3>. QED  BY <3>1, <3>2
  <2>. QED  BY <1>2, <2>1, <2>2, <2>3 DEF TypeOK
<1>5. Remembered'
  BY <1>1, <1>2 DEF Remembered, Fresh
<1>6. ASSUME NEW d \in Clients, NEW life \in 0 .. MaxRestarts, NEW t \in 0 .. MaxTime
      PROVE  Cardinality(Passed(d, life, t)') <= Limit
  <2>1. Cardinality(Passed(d, life, t)) <= Limit
    BY DEF WindowBound
  <2>2. CASE d # c
    BY <1>2, <2>1, <2>2 DEF Passed
  <2>3. CASE d = c /\ ~(life = restarts /\ now \in t - Window + 1 .. t)
    <3>1. Passed(d, life, t)' = Passed(d, life, t)
      BY <1>1, <1>2, <2>3 DEF Passed
    <3>. QED  BY <2>1, <3>1
  <2>4. CASE d = c /\ life = restarts /\ now \in t - Window + 1 .. t
    <3>1. Passed(d, life, t)' = Passed(c, restarts, t) \cup {new}
      BY <1>1, <1>2, <2>4 DEF Passed
    <3>2. \A a \in admitted[c] : a.time \in Nat /\ a.time <= now
      BY DEF TypeOK, Stamp
    <3>3. Passed(c, restarts, t) \in SUBSET Passed(c, restarts, now)
      BY <2>4, <3>2, RateLimiterAssumption DEF Passed, TypeOK
    <3>4. Cardinality(Passed(c, restarts, t)) <= Cardinality(Passed(c, restarts, now))
      BY <3>3, PassedFinite, FS_Subset
    <3>5. ~(Cardinality(Passed(c, restarts, now)) >= Limit)
      BY FreshIsPassed DEF Admit, Full
    <3>6. Cardinality(Passed(c, restarts, t) \cup {new}) <= Cardinality(Passed(c, restarts, t)) + 1
      <4>1. IsFiniteSet(Passed(c, restarts, t)) /\ Cardinality(Passed(c, restarts, t)) \in Nat
        BY PassedFinite
      <4>. QED  BY <4>1, FS_AddElement
    <3>7. /\ Cardinality(Passed(c, restarts, t)) \in Nat
          /\ Cardinality(Passed(c, restarts, now)) \in Nat
          /\ Cardinality(Passed(c, restarts, t) \cup {new}) \in Nat
      BY PassedFinite, FS_AddElement, FS_CardinalityType
    <3>. QED  BY <3>1, <3>4, <3>5, <3>6, <3>7, RateLimiterAssumption
  <2>. QED  BY <2>2, <2>3, <2>4
<1>7. WindowBound'
  BY <1>6 DEF WindowBound
<1>. QED  BY <1>4, <1>5, <1>7 DEF Inv

LEMMA NextInv == Inv /\ [Next]_vars => Inv'
<1> SUFFICES ASSUME Inv, [Next]_vars PROVE Inv'
  OBVIOUS
<1>1. CASE Tick
  BY <1>1, TickInv
<1>2. CASE Restart
  BY <1>2, RestartInv
<1>3. ASSUME NEW c \in Clients, Admit(c) PROVE Inv'
  BY <1>3, AdmitInv
<1>4. ASSUME NEW c \in Clients, Refuse(c) PROVE Inv'
  BY <1>4, RefuseInv
<1>5. CASE UNCHANGED vars
  BY <1>5 DEF vars, Inv, TypeOK, Remembered, WindowBound, Passed
<1>. QED  BY <1>1, <1>2, <1>3, <1>4, <1>5 DEF Next

LEMMA Invariance == Spec => []Inv
BY InitInv, NextInv, PTL DEF Spec

\* Every variable keeps its type; no recorded time is of the future.
THEOREM TypeCorrect == Spec => []TypeOK
<1>1. Inv => TypeOK
  BY DEF Inv
<1>. QED  BY <1>1, Invariance, PTL

\* No window, wherever it begins, has more than Limit requests of a client that
\* one life of the process let through.
THEOREM WindowIsBounded == Spec => []WindowBound
<1>1. Inv => WindowBound
  BY DEF Inv
<1>. QED  BY <1>1, Invariance, PTL

\* Whoever is refused had exactly Limit requests let through in the last window.
THEOREM RefusalsAreJust == Spec => []RefusedOnlyWhenFull
<1>1. Init => RefusedOnlyWhenFull
  BY DEF Init, RefusedOnlyWhenFull
<1>2. Inv /\ RefusedOnlyWhenFull /\ [Next]_vars => RefusedOnlyWhenFull'
  <2> SUFFICES ASSUME Inv, RefusedOnlyWhenFull, [Next]_vars
               PROVE  RefusedOnlyWhenFull'
    OBVIOUS
  <2>1. ASSUME NEW c \in Clients, Refuse(c)
        PROVE  RefusedOnlyWhenFull'
    <3>1. answer'.client = c /\ UNCHANGED <<now, restarts, admitted>>
      BY <2>1 DEF Refuse
    <3>2. Cardinality(Passed(c, restarts, now)) >= Limit
      BY <2>1, FreshIsPassed DEF Refuse, Full, Inv
    <3>3. Cardinality(Passed(c, restarts, now)) <= Limit
      BY DEF Inv, WindowBound, TypeOK
    <3>4. Cardinality(Passed(c, restarts, now)) = Limit
      BY <3>2, <3>3, PassedFinite, RateLimiterAssumption DEF Inv
    <3>. QED  BY <3>1, <3>4 DEF RefusedOnlyWhenFull, Passed
  <2>2. ASSUME NEW c \in Clients, Admit(c)
        PROVE  RefusedOnlyWhenFull'
    BY <2>2 DEF Admit, RefusedOnlyWhenFull
  <2>3. CASE Tick \/ Restart
    BY <2>3 DEF Tick, Restart, RefusedOnlyWhenFull
  <2>4. CASE UNCHANGED vars
    BY <2>4 DEF vars, RefusedOnlyWhenFull, Passed
  <2>. QED  BY <2>1, <2>2, <2>3, <2>4 DEF Next
<1>. QED  BY <1>1, <1>2, Invariance, PTL DEF Spec

(***************************************************************************)
(* OnCall.                                                                 *)
(*                                                                         *)
(* EqualTurns counts.  Within a stretch as long as a round the times when  *)
(* somebody is on call correspond one to one to the pairs of a moment      *)
(* within a turn and a turn that is theirs: no pair is met twice, as two   *)
(* times less than a round apart cannot agree in both (SameInstant), and   *)
(* every pair is met (InstantFor).                                         *)
(*                                                                         *)
(* OverridesAreLocal follows the newest active override: where it is       *)
(* after an Append and after a RemoveAt.                                   *)
(*                                                                         *)
(* AsDocumented compares a search from the top with a recursion from the   *)
(* bottom.  The recursion is shown to exist and to give the last answer    *)
(* (WalkSaysTheLast), by looking at the least number of answers for which  *)
(* it would not.                                                           *)
(***************************************************************************)
-----------------------------------------------------------------------------
(* Extremes of sets of numbers, and division.                              *)

LEMMA LeastExists ==
    ASSUME NEW S \in SUBSET Nat, S # {}
    PROVE  \E m \in S : \A n \in S : m <= n
<1>1. IsWellFoundedOn(OpToRel(<, Nat), Nat)
  BY NatLessThanWellFounded
<1>2. PICK m \in S : \A n \in S : <<n, m>> \notin OpToRel(<, Nat)
  BY <1>1, WFMin, Zenon
<1>3. \A n \in S : ~ (n < m)
  BY <1>2 DEF OpToRel
<1>. QED  BY <1>3

LEMMA LeastIs ==
    ASSUME NEW S \in SUBSET Nat, NEW m \in S, \A n \in S : m <= n
    PROVE  Min(S) = m
<1>1. Min(S) \in S /\ \A n \in S : Min(S) <= n
  BY DEF Min
<1>2. Min(S) \in Nat /\ m \in Nat
  BY <1>1
<1>3. Min(S) <= m /\ m <= Min(S)
  BY <1>1
<1>. QED  BY <1>2, <1>3

LEMMA LeastOf ==
    ASSUME NEW S \in SUBSET Nat, S # {}
    PROVE  Min(S) \in S /\ \A n \in S : Min(S) <= n
BY LeastExists DEF Min

LEMMA GreatestIs ==
    ASSUME NEW S \in SUBSET Nat, NEW m \in S, \A n \in S : n <= m
    PROVE  Max(S) = m
<1>1. Max(S) \in S /\ \A n \in S : Max(S) >= n
  BY DEF Max
<1>2. Max(S) \in Nat /\ m \in Nat
  BY <1>1
<1>3. Max(S) <= m /\ Max(S) >= m
  BY <1>1
<1>. QED  BY <1>2, <1>3

LEMMA GreatestOf ==
    ASSUME NEW b \in Nat, NEW S \in SUBSET (0..b), S # {}
    PROVE  Max(S) \in S /\ \A n \in S : n <= Max(S)
<1>. DEFINE T == {b - n : n \in S}
<1>1. T \in SUBSET Nat
  OBVIOUS
<1>0. T # {}
  <2>1. PICK n \in S : TRUE
    OBVIOUS
  <2>. QED  BY <2>1
<1>2. PICK t \in T : \A u \in T : t <= u
  BY <1>0, <1>1, LeastExists
<1>3. PICK m \in S : t = b - m
  OBVIOUS
<1>4. \A n \in S : n <= m
  <2> TAKE n \in S
  <2>1. b - n \in T
    OBVIOUS
  <2>. QED  BY <2>1, <1>2, <1>3
<1>. QED  BY <1>4 DEF Max

LEMMA Division ==
    ASSUME NEW a \in Int, NEW b \in Nat \ {0}
    PROVE  /\ a \div b \in Int
           /\ a % b \in 0..(b - 1)
           /\ a = b * (a \div b) + (a % b)
<1>1. a \div b \in Int
  OBVIOUS
<1>2. a % b = a - b * (a \div b)
  OBVIOUS
<1>3. b * (a \div b) \in Int
  BY <1>1
<1>4. a - b * (a \div b) \in 0..(b - 1)
  OBVIOUS
<1>. QED  BY <1>1, <1>2, <1>3, <1>4

LEMMA DivisionIs ==
    ASSUME NEW a \in Int, NEW b \in Nat \ {0},
           NEW q \in Int, NEW r \in 0..(b - 1), a = b * q + r
    PROVE  a \div b = q /\ a % b = r
OBVIOUS

LEMMA QuotientIsNat ==
    ASSUME NEW a \in Nat, NEW b \in Nat \ {0}
    PROVE  a \div b \in Nat
OBVIOUS

\* Two numbers less than n apart are not different multiples of n apart.
LEMMA NoOtherMultiple ==
    ASSUME NEW n \in Nat \ {0}, NEW z \in Int, n * z < n, n * z > -n
    PROVE  z = 0
OBVIOUS

-----------------------------------------------------------------------------
(* Rotations: T is the length of a turn, L the number of turns in a round. *)

LEMMA RoundIsLong ==
    ASSUME NEW T \in Nat \ {0}, NEW L \in Nat \ {0}
    PROVE  T * L \in Nat \ {0}
OBVIOUS

\* Two instants less than a round apart, at the same place of the same turn of
\* their rounds, are one.
LEMMA SameInstant ==
    ASSUME NEW T \in Nat \ {0}, NEW L \in Nat \ {0}, NEW x \in Int, NEW y \in Int,
           x % T = y % T, (x \div T) % L = (y \div T) % L,
           x - y < T * L, y - x < T * L
    PROVE  x = y
<1>. DEFINE qx == x \div T
            qy == y \div T
            px == qx \div L
            py == qy \div L
            z == px - py
<1>1. /\ qx \in Int /\ qy \in Int
      /\ x = T * qx + (x % T) /\ y = T * qy + (y % T)
      /\ x % T \in Int
  BY Division
<1>2. /\ px \in Int /\ py \in Int
      /\ qx = L * px + (qx % L) /\ qy = L * py + (qy % L)
      /\ qx % L \in Int
  BY <1>1, Division
<1>3. x - y = T * qx - T * qy /\ qx - qy = L * px - L * py
  <2>. HIDE DEF qx, qy, px, py
  <2>1. qx % L = qy % L
    BY DEF qx, qy
  <2>2. T * qx \in Int /\ T * qy \in Int /\ L * px \in Int /\ L * py \in Int
    BY <1>1, <1>2
  <2>. QED  BY <1>1, <1>2, <2>1, <2>2
<1>4. x - y = (T * L) * z
  <2>. HIDE DEF qx, qy, px, py
  <2>1. qx - qy = L * (px - py)
    BY <1>1, <1>2, <1>3
  <2>2. x - y = T * (qx - qy)
    BY <1>1, <1>2, <1>3
  <2>3. x - y = T * (L * (px - py))
    BY <2>1, <2>2
  <2>. QED  BY <1>2, <2>3
<1>5. z \in Int
  BY <1>2
<1>6. z = 0
  <2>. HIDE DEF z
  <2>. QED  BY <1>4, <1>5, RoundIsLong, NoOtherMultiple
<1>. QED
  <2>. HIDE DEF z
  <2>1. (T * L) * z = 0
    BY <1>6, RoundIsLong
  <2>. QED  BY <2>1, <1>4

\* x is the moment r of the turn j of a round.
IsMoment(x, T, L, r, j) == x % T = r /\ (x \div T) % L = j

\* Every moment of every turn occurs in every stretch as long as a round.
LEMMA InstantFor ==
    ASSUME NEW T \in Nat \ {0}, NEW L \in Nat \ {0}, NEW from \in Int,
           NEW r \in 0..(T - 1), NEW j \in 0..(L - 1)
    PROVE  \E x \in from..(from + T * L - 1) : IsMoment(x, T, L, r, j)
<1>. DEFINE N == T * L
            m == T * j + r
            y == (m - from) \div N
            x == from + ((m - from) % N)
            q == L * (0 - y) + j
<1>1. N \in Nat \ {0} /\ m \in Int
  BY RoundIsLong
<1>2. /\ y \in Int /\ (m - from) % N \in 0..(N - 1)
      /\ m - from = N * y + ((m - from) % N)
  <2>. HIDE DEF N, m
  <2>1. m - from \in Int
    BY <1>1
  <2>. QED  BY <1>1, <2>1, Division
<1>3. x \in from..(from + N - 1)
  BY <1>1, <1>2
<1>4. x = m - N * y
  <2>. HIDE DEF N, m, y
  <2>1. N * y \in Int
    BY <1>1, <1>2
  <2>2. PICK w \in Int : w = (m - from) % N /\ m - from = N * y + w
    BY <1>1, <1>2
  <2>3. x = from + w
    BY <2>2
  <2>. QED  BY <1>1, <2>1, <2>2, <2>3
<1>5. q \in Int
  BY <1>2
<1>6. x = T * q + r
  <2>. HIDE DEF y, x
  <2>1. T * q = T * (L * (0 - y)) + T * j
    BY <1>2
  <2>2. T * (L * (0 - y)) = 0 - (T * L) * y
    BY <1>2
  <2>. QED  BY <1>2, <1>4, <2>1, <2>2
<1>7. x \div T = q /\ x % T = r
  <2>. HIDE DEF x, q
  <2>. QED  BY <1>3, <1>5, <1>6, DivisionIs
<1>8. q % L = j
  <2>1. 0 - y \in Int
    BY <1>2
  <2>. QED  BY <2>1, <1>5, DivisionIs
<1>. QED  BY <1>3, <1>7, <1>8 DEF IsMoment

\* Which of the L turns of a round it is at the time at.
TurnOfRound(at, start, T, L) == (((at - start) \div T) % L) + 1

\* When, in the round that begins at from, one of the turns K is on.
OnDuty(from, start, T, L, K) ==
    {at \in from..(from + T * L - 1) : TurnOfRound(at, start, T, L) \in K}

\* Any set K of turns is on for |K| turns of every round, wherever it begins.
LEMMA RoundIsFair ==
    ASSUME NEW T \in Nat \ {0}, NEW L \in Nat \ {0}, NEW start \in Int, NEW from \in Int,
           NEW K \in SUBSET (1..L)
    PROVE  Cardinality(OnDuty(from, start, T, L, K)) = T * Cardinality(K)
<1>. DEFINE place(at) == (at - start) % T
            index(at) == TurnOfRound(at, start, T, L)
            stretch == from..(from + T * L - 1)
            A == {at \in stretch : index(at) \in K}
            B == (0..(T - 1)) \X K
            f == [at \in A |-> <<place(at), index(at)>>]
<1>1. \A at \in Int : place(at) \in 0..(T - 1)
  BY Division
<1>2. f \in [A -> B]
  BY <1>1
<1>3. \A x, y \in A : f[x] = f[y] => x = y
  <2> SUFFICES ASSUME NEW x \in A, NEW y \in A, f[x] = f[y] PROVE x = y
    OBVIOUS
  <2>1. place(x) = place(y) /\ index(x) = index(y)
    OBVIOUS
  <2>2. T * L \in Nat \ {0}
    BY RoundIsLong
  <2>3. x \in Int /\ y \in Int /\ x - y < T * L /\ y - x < T * L
    BY <2>2
  <2>4. (x - start) \div T \in Int /\ (y - start) \div T \in Int
    BY <2>3
  <2>5. ((x - start) \div T) % L \in Int /\ ((y - start) \div T) % L \in Int
    BY <2>4
  <2>6. ((x - start) \div T) % L = ((y - start) \div T) % L
    <3>1. \A u, v \in Int : u + 1 = v + 1 => u = v
      OBVIOUS
    <3>. QED  BY <2>1, <2>5, <3>1 DEF TurnOfRound
  <2>7. x - start = y - start
    <3>1. (x - start) % T = (y - start) % T
      BY <2>1
    <3>2. /\ x - start \in Int /\ y - start \in Int
          /\ (x - start) - (y - start) < T * L
          /\ (y - start) - (x - start) < T * L
      BY <2>2, <2>3
    <3>. QED  BY <3>1, <3>2, <2>6, SameInstant
  <2>. QED  BY <2>3, <2>7
<1>4. \A t \in B : \E x \in A : f[x] = t
  <2>. DEFINE F == from - start
  <2>1. \A r \in 0..(T - 1), k \in K : \E x \in A : f[x] = <<r, k>>
    <3>. TAKE r \in 0..(T - 1), k \in K
    <3>1. k \in Int /\ k - 1 \in 0..(L - 1) /\ F \in Int
      OBVIOUS
    <3>2. PICK j \in 0..(L - 1) : k = j + 1
      BY <3>1
    <3>3. PICK x \in F..(F + T * L - 1) : IsMoment(x, T, L, r, j)
      <4>. HIDE DEF F
      <4>. QED  BY <3>1, InstantFor, Zenon
    <3>4. T * L \in Nat \ {0}
      BY RoundIsLong
    <3>5. x + start \in stretch /\ (x + start) - start = x
      BY <3>3, <3>4
    <3>6. place(x + start) = r /\ index(x + start) = k
      BY <3>2, <3>3, <3>5 DEF IsMoment, TurnOfRound
    <3>. QED  BY <3>5, <3>6
  <2>2. SUFFICES ASSUME NEW t \in B PROVE \E x \in A : f[x] = t
    OBVIOUS
  <2>3. t[1] \in 0..(T - 1) /\ t[2] \in K /\ t = <<t[1], t[2]>>
    <3>. HIDE DEF A, f
    <3>. QED  OBVIOUS
  <2>. HIDE DEF A, B, f
  <2>4. \E x \in A : f[x] = <<t[1], t[2]>>
    BY <2>1, <2>3
  <2>. QED  BY <2>3, <2>4
<1>5. ExistsBijection(A, B)
  <2>. HIDE DEF A, B, f
  <2>. QED  BY <1>2, <1>3, <1>4 DEF ExistsBijection, Bijection, Injection, Surjection, IsInjective
<1>6. IsFiniteSet(A)
  <2>1. IsFiniteSet(stretch)
    BY RoundIsLong, FS_Interval
  <2>2. A \in SUBSET stretch
    OBVIOUS
  <2>. QED  BY <2>1, <2>2, FS_Subset
<1>7. IsFiniteSet(K) /\ IsFiniteSet(0..(T - 1)) /\ Cardinality(0..(T - 1)) = T
  <2>1. IsFiniteSet(0..(T - 1)) /\ Cardinality(0..(T - 1)) = T
    <3>1. T - 1 \in Int /\ ~(0 > T - 1) /\ (T - 1) - 0 + 1 = T
      OBVIOUS
    <3>. QED  BY <3>1, FS_Interval
  <2>2. IsFiniteSet(1..L)
    BY FS_Interval
  <2>. QED  BY <2>1, <2>2, FS_Subset
<1>8. Cardinality(B) = Cardinality(A)
  <2>. HIDE DEF A, B
  <2>. QED  BY <1>5, <1>6, FS_Bijection
<1>9. Cardinality(B) = T * Cardinality(K)
  BY <1>7, FS_Product
<1>10. A = OnDuty(from, start, T, L, K)
  BY DEF OnDuty
<1>. QED  BY <1>8, <1>9, <1>10

-----------------------------------------------------------------------------
(* Types.                                                                  *)

LEMMA LayerType ==
    ASSUME NEW l \in Layer
    PROVE  /\ l.start \in Nat /\ l.turn \in Nat \ {0}
           /\ l.users \in Seq(User) /\ Len(l.users) \in Nat \ {0}
           /\ DOMAIN l.users = 1..Len(l.users)
<1>1. l.start \in Starts /\ l.turn \in TurnLengths /\ l.users \in Rotations
  BY DEF Layer
<1>2. l.users \in Seq(User) /\ l.users # <<>>
  BY <1>1, OnCallAssumption
<1>3. Len(l.users) \in Nat /\ DOMAIN l.users = 1..Len(l.users) /\ Len(l.users) # 0
  BY <1>2, EmptySeq
<1>. QED  BY <1>1, <1>2, <1>3, OnCallAssumption

LEMMA OverrideType ==
    ASSUME NEW o \in Override
    PROVE  o.user \in User /\ o.from \in Nat /\ o.to \in Nat
BY OnCallAssumption DEF Override

LEMMA PlansType ==
    ASSUME PlansOK
    PROVE  /\ Len(layers) \in Nat /\ DOMAIN layers = 1..Len(layers)
           /\ \A i \in 1..Len(layers) : layers[i] \in Layer
           /\ Len(overrides) \in Nat /\ DOMAIN overrides = 1..Len(overrides)
           /\ \A i \in 1..Len(overrides) : overrides[i] \in Override
BY DEF PlansOK

\* RemoveAt moves what comes after one place forward.
LEMMA Removed ==
    ASSUME NEW S, NEW s \in Seq(S), NEW i \in 1..Len(s)
    PROVE  /\ RemoveAt(s, i) \in Seq(S)
           /\ Len(RemoveAt(s, i)) = Len(s) - 1
           /\ \A j \in 1..(Len(s) - 1) :
                RemoveAt(s, i)[j] = IF j < i THEN s[j] ELSE s[j + 1]
<1>. DEFINE a == SubSeq(s, 1, i - 1)
            b == SubSeq(s, i + 1, Len(s))
<1>1. Len(s) \in Nat /\ i \in Int
  OBVIOUS
<1>2. /\ a \in Seq(S) /\ Len(a) = i - 1
      /\ \A j \in 1..(i - 1) : a[j] = s[j]
  BY <1>1
<1>3. /\ b \in Seq(S) /\ Len(b) = Len(s) - i
      /\ \A j \in 1..(Len(s) - i) : b[j] = s[i + j]
  BY <1>1
<1>4. /\ a \o b \in Seq(S) /\ Len(a \o b) = Len(a) + Len(b)
      /\ \A j \in 1..(Len(a) + Len(b)) :
            (a \o b)[j] = IF j <= Len(a) THEN a[j] ELSE b[j - Len(a)]
  <2>. HIDE DEF a, b
  <2>. QED  BY <1>2, <1>3, ConcatProperties
<1>5. RemoveAt(s, i) = a \o b
  BY DEF RemoveAt
<1>6. ASSUME NEW j \in 1..(Len(s) - 1)
      PROVE  (a \o b)[j] = IF j < i THEN s[j] ELSE s[j + 1]
  <2>. HIDE DEF a, b
  <2>1. CASE j < i
    BY <2>1, <1>1, <1>2, <1>3, <1>4
  <2>2. CASE ~(j < i)
    <3>1. j - (i - 1) \in 1..(Len(s) - i) /\ i + (j - (i - 1)) = j + 1
      BY <2>2, <1>1
    <3>2. j \in 1..(Len(a) + Len(b)) /\ ~(j <= Len(a)) /\ j - Len(a) = j - (i - 1)
      BY <2>2, <1>1, <1>2, <1>3
    <3>3. b[j - (i - 1)] = s[i + (j - (i - 1))]
      BY <3>1, <1>3
    <3>. QED  BY <2>2, <3>1, <3>2, <3>3, <1>4
  <2>. QED  BY <2>1, <2>2
<1>. QED
  <2>. HIDE DEF a, b
  <2>1. Len(a) + Len(b) = Len(s) - 1
    BY <1>1, <1>2, <1>3
  <2>. QED  BY <1>4, <1>5, <1>6, <2>1

LEMMA InitPlans == NothingPlanned => PlansOK
BY OnCallAssumption DEF NothingPlanned, PlansOK

LEMMA StepPlans == PlansOK /\ [Request]_Plans => PlansOK'
<1> SUFFICES ASSUME PlansOK, [Request]_Plans PROVE PlansOK'
  OBVIOUS
<1>1. ASSUME NEW o \in Override, CreateOverride(o) PROVE PlansOK'
  <2>. USE <1>1
  <2>1. /\ overrides' \in Seq(Override) /\ Len(overrides') = Len(overrides) + 1
        /\ \A i \in 1..Len(overrides') :
              overrides'[i] = IF i = Len(overrides) + 1 THEN o ELSE overrides[i]
    BY PlansType DEF CreateOverride, PlansOK
  <2>2. o.from < o.to
    BY OverrideType DEF CreateOverride, ValidRange
  <2>3. \A i \in DOMAIN overrides' : overrides'[i].from < overrides'[i].to
    BY <2>1, <2>2 DEF PlansOK
  <2>4. Len(overrides') <= MaxOverrides
    BY <2>1, PlansType, OnCallAssumption DEF CreateOverride
  <2>. QED  BY <2>1, <2>3, <2>4 DEF CreateOverride, PlansOK
<1>2. ASSUME NEW i \in DOMAIN overrides, DeleteOverride(i) PROVE PlansOK'
  <2>. USE <1>2
  <2>1. i \in 1..Len(overrides) /\ overrides \in Seq(Override) /\ Len(overrides) \in Nat
    BY PlansType DEF PlansOK
  <2>2. overrides' = RemoveAt(overrides, i)
    BY DEF DeleteOverride
  <2>3. /\ overrides' \in Seq(Override)
        /\ Len(overrides') = Len(overrides) - 1
        /\ \A j \in 1..(Len(overrides) - 1) :
              overrides'[j] = IF j < i THEN overrides[j] ELSE overrides[j + 1]
    BY <2>1, <2>2, Removed
  <2>4. \A j \in 1..(Len(overrides) - 1) : \E k \in DOMAIN overrides : overrides'[j] = overrides[k]
    <3> TAKE j \in 1..(Len(overrides) - 1)
    <3>1. j \in DOMAIN overrides /\ j + 1 \in DOMAIN overrides
      BY <2>1
    <3>. QED  BY <2>3, <3>1
  <2>5. \A j \in DOMAIN overrides' : overrides'[j].from < overrides'[j].to
    <3>1. DOMAIN overrides' = 1..(Len(overrides) - 1)
      BY <2>1, <2>3
    <3>. QED  BY <2>4, <3>1 DEF PlansOK
  <2>. QED  BY <2>1, <2>3, <2>5, OnCallAssumption DEF DeleteOverride, PlansOK
<1>3. ASSUME ReplaceLayers PROVE PlansOK'
  <2>1. PICK n \in 0..MaxLayers : layers' \in [1..n -> Layer]
    BY <1>3 DEF ReplaceLayers
  <2>2. layers' \in Seq(Layer) /\ Len(layers') = n
    BY <2>1, OnCallAssumption
  <2>. QED  BY <1>3, <2>2, OnCallAssumption DEF ReplaceLayers, PlansOK
<1>4. ASSUME UNCHANGED Plans PROVE PlansOK'
  BY <1>4 DEF Plans, PlansOK
<1>. QED  BY <1>1, <1>2, <1>3, <1>4 DEF Request

\* Type correctness: the tables hold layers and overrides, and none of the
\* overrides ends before it begins.
THEOREM PlansAreTyped == OnCallSpec => []PlansOK
BY InitPlans, StepPlans, PTL DEF OnCallSpec

-----------------------------------------------------------------------------
(* A rotation gives every user as many turns as it lists them.             *)

LEMMA PlansGiveEqualTurns == PlansOK => EqualTurns
<1> SUFFICES ASSUME PlansOK, NEW i \in DOMAIN layers,
                    NEW from \in layers[i].start..Horizon, NEW u \in User
             PROVE  LET l == layers[i]
                        round == l.turn * Len(l.users)
                    IN  Cardinality({at \in from..(from + round - 1) : LayerUser(l, at) = u})
                          = l.turn * Cardinality({k \in DOMAIN l.users : l.users[k] = u})
  BY DEF EqualTurns
<1>. DEFINE l == layers[i]
            T == l.turn
            L == Len(l.users)
            K == {k \in DOMAIN l.users : l.users[k] = u}
            place(at) == TurnOfRound(at, l.start, T, L)
<1>1. l \in Layer
  BY PlansType
<1>2. T \in Nat \ {0} /\ L \in Nat \ {0} /\ l.start \in Int /\ from \in Int
  BY <1>1, LayerType
<1>3. K \in SUBSET (1..L)
  BY <1>1, LayerType
<1>4. \A at \in Int : place(at) \in DOMAIN l.users
  <2> TAKE at \in Int
  <2>. HIDE DEF l, T, L
  <2>1. (at - l.start) \div T \in Int
    BY <1>2
  <2>2. ((at - l.start) \div T) % L \in 0..(L - 1)
    BY <1>2, <2>1
  <2>. QED  BY <2>2, <1>1, <1>2, LayerType DEF L, TurnOfRound
<1>5. \A at \in Int : LayerUser(l, at) = l.users[place(at)]
  BY DEF LayerUser, TurnIndex, TurnOfRound
<1>6. \A at \in Int : LayerUser(l, at) = u <=> place(at) \in K
  <2>. HIDE DEF place
  <2>. QED  BY <1>4, <1>5
<1>7. {at \in from..(from + T * L - 1) : LayerUser(l, at) = u}
        = OnDuty(from, l.start, T, L, K)
  <2>. HIDE DEF l, T, L, K
  <2>. QED  BY <1>2, <1>6 DEF OnDuty
<1>8. Cardinality(OnDuty(from, l.start, T, L, K)) = T * Cardinality(K)
  <2>. HIDE DEF l, T, L, K
  <2>. QED  BY <1>2, <1>3, RoundIsFair
<1>. QED  BY <1>7, <1>8

\* In any stretch as long as a round, wherever it begins after the rotation did,
\* everybody is on call one turn for each place they have in the layer.
THEOREM TurnsAreEqual == OnCallSpec => []EqualTurns
BY PlansAreTyped, PlansGiveEqualTurns, PTL

-----------------------------------------------------------------------------
(* Overrides.                                                              *)

LEMMA NewestActive ==
    ASSUME PlansOK, NEW at, ActiveOverrides(at) # {}
    PROVE  /\ Max(ActiveOverrides(at)) \in ActiveOverrides(at)
           /\ \A i \in ActiveOverrides(at) : i <= Max(ActiveOverrides(at))
<1>1. ActiveOverrides(at) \in SUBSET (0..Len(overrides)) /\ Len(overrides) \in Nat
  BY PlansType DEF ActiveOverrides
<1>. QED  BY <1>1, GreatestOf

\* As long as the layers stay, so does what they say.
LEMMA SameLayers ==
    ASSUME UNCHANGED layers, NEW at
    PROVE  /\ StartedLayers(at)' = StartedLayers(at)
           /\ \A i : LayerUser(layers[i], at)' = LayerUser(layers[i], at)
BY DEF StartedLayers, LayerUser, TurnIndex

\* A new override counts from its beginning until before its end, whatever there
\* is already.
LEMMA CreateIsLocal ==
    ASSUME PlansOK, NEW o \in Override, CreateOverride(o), NEW at
    PROVE  ResolveOncall(at)' = IF o.from <= at /\ at < o.to
                                THEN o.user ELSE ResolveOncall(at)
<1>. DEFINE n == Len(overrides) + 1
            A == ActiveOverrides(at)
<1>1. n \in Nat /\ UNCHANGED layers
  BY PlansType DEF CreateOverride
<1>2. /\ DOMAIN overrides' = 1..n
      /\ overrides'[n] = o
      /\ \A i \in 1..Len(overrides) : overrides'[i] = overrides[i]
  BY PlansType DEF CreateOverride, PlansOK
<1>3. A \in SUBSET (1..Len(overrides))
  BY PlansType DEF ActiveOverrides
<1>4. A' = IF Active(o, at) THEN A \cup {n} ELSE A
  BY PlansType, <1>1, <1>2 DEF ActiveOverrides
<1>5. CASE Active(o, at)
  <2>1. A' \in SUBSET Nat /\ n \in A' /\ \A i \in A' : i <= n
    BY <1>1, <1>3, <1>4, <1>5, PlansType
  <2>2. Max(A') = n
    <3>. HIDE DEF A, n
    <3>. QED  BY <2>1, GreatestIs
  <2>3. ResolveOncall(at)' = overrides'[Max(A')].user
    BY <2>1 DEF ResolveOncall
  <2>. QED  BY <1>2, <1>5, <2>2, <2>3 DEF Active
<1>6. CASE ~Active(o, at)
  <2>1. A' = A
    BY <1>4, <1>6
  <2>2. CASE A # {}
    <3>1. Max(A) \in 1..Len(overrides)
      BY <1>3, <2>2, NewestActive
    <3>. QED  BY <1>2, <1>6, <2>1, <2>2, <3>1 DEF ResolveOncall, Active
  <2>3. CASE A = {}
    BY <1>1, <1>6, <2>1, <2>3, SameLayers DEF ResolveOncall, Active
  <2>. QED  BY <2>2, <2>3
<1>. QED  BY <1>5, <1>6

\* Without an override everything is as it was, except while that override was
\* active.
LEMMA DeleteIsLocal ==
    ASSUME PlansOK, NEW i \in DOMAIN overrides, DeleteOverride(i), NEW at,
           ~Active(overrides[i], at)
    PROVE  ResolveOncall(at)' = ResolveOncall(at)
<1>. DEFINE n == Len(overrides)
            A == ActiveOverrides(at)
            before(j) == IF j < i THEN j ELSE j + 1
            after(j) == IF j < i THEN j ELSE j - 1
<1>1. n \in Nat /\ i \in 1..n /\ UNCHANGED layers
  BY PlansType DEF DeleteOverride
<1>2. /\ DOMAIN overrides' = 1..(n - 1)
      /\ \A j \in 1..(n - 1) : overrides'[j] = overrides[before(j)]
  <2>1. overrides' = RemoveAt(overrides, i) /\ overrides \in Seq(Override)
    BY DEF DeleteOverride, PlansOK
  <2>2. /\ Len(RemoveAt(overrides, i)) = Len(overrides) - 1
        /\ RemoveAt(overrides, i) \in Seq(Override)
        /\ \A j \in 1..(Len(overrides) - 1) :
             RemoveAt(overrides, i)[j] = IF j < i THEN overrides[j] ELSE overrides[j + 1]
    BY <1>1, <2>1, Removed
  <2>. QED  BY <1>1, <2>1, <2>2
<1>3. A \in SUBSET (1..n) /\ i \notin A
  BY PlansType DEF ActiveOverrides
<1>4. A' = {j \in 1..(n - 1) : before(j) \in A}
  <2>1. \A j \in 1..(n - 1) : before(j) \in 1..n
    BY <1>1
  <2>. QED  BY <1>2, <2>1, PlansType DEF ActiveOverrides
<1>5. \A j \in A : after(j) \in 1..(n - 1) /\ before(after(j)) = j
  BY <1>1, <1>3
<1>6. CASE A # {}
  <2>. DEFINE m == Max(A)
  <2>1. m \in A /\ \A j \in A : j <= m
    BY <1>6, NewestActive
  <2>2. after(m) \in A' /\ overrides'[after(m)] = overrides[m]
    <3>. HIDE DEF A, m
    <3>. QED  BY <1>2, <1>4, <1>5, <2>1
  <2>3. \A j \in A' : j <= after(m)
    <3>. HIDE DEF A, m
    <3>. QED  BY <1>1, <1>3, <1>4, <2>1
  <2>4. A' \in SUBSET Nat
    BY <1>1, <1>4
  <2>5. Max(A') = after(m)
    <3>. HIDE DEF A, m, after
    <3>. QED  BY <2>2, <2>3, <2>4, GreatestIs
  <2>6. ResolveOncall(at)' = overrides'[Max(A')].user
    BY <2>2 DEF ResolveOncall
  <2>7. ResolveOncall(at) = overrides[m].user
    BY <1>6 DEF ResolveOncall
  <2>. QED  BY <2>2, <2>5, <2>6, <2>7
<1>7. CASE A = {}
  <2>1. A' = {}
    BY <1>4, <1>7
  <2>. QED  BY <1>1, <1>7, <2>1, SameLayers DEF ResolveOncall
<1>. QED  BY <1>6, <1>7

LEMMA StepIsLocal ==
    ASSUME PlansOK
    PROVE  /\ \A o \in Override : CreateOverride(o) =>
                \A at \in Times :
                    ResolveOncall(at)' = IF o.from <= at /\ at < o.to
                                         THEN o.user ELSE ResolveOncall(at)
           /\ \A i \in DOMAIN overrides : DeleteOverride(i) =>
                \A at \in Times :
                    ResolveOncall(at)' # ResolveOncall(at) =>
                        overrides[i].from <= at /\ at < overrides[i].to
<1>1. ASSUME NEW o \in Override, CreateOverride(o), NEW at \in Times
      PROVE  ResolveOncall(at)' = IF o.from <= at /\ at < o.to
                                  THEN o.user ELSE ResolveOncall(at)
  BY <1>1, CreateIsLocal
<1>2. ASSUME NEW i \in DOMAIN overrides, DeleteOverride(i), NEW at \in Times,
             ResolveOncall(at)' # ResolveOncall(at)
      PROVE  overrides[i].from <= at /\ at < overrides[i].to
  BY <1>2, DeleteIsLocal DEF Active
<1>. QED  BY <1>1, <1>2

\* Creating or deleting an override changes who is on call while that override is
\* active and at no other time; a new one wins over all there are.
THEOREM OverridesStayLocal == OnCallSpec => OverridesAreLocal
<1>1. PlansOK /\ [Request]_Plans =>
        [/\ \A o \in Override : CreateOverride(o) =>
                \A at \in Times :
                    ResolveOncall(at)' = IF o.from <= at /\ at < o.to
                                         THEN o.user ELSE ResolveOncall(at)
         /\ \A i \in DOMAIN overrides : DeleteOverride(i) =>
                \A at \in Times :
                    ResolveOncall(at)' # ResolveOncall(at) =>
                        overrides[i].from <= at /\ at < overrides[i].to]_Plans
  BY StepIsLocal
<1>. QED  BY <1>1, PlansAreTyped, PTL DEF OnCallSpec, OverridesAreLocal

-----------------------------------------------------------------------------
(* The walk.                                                               *)

\* The last of the first n answers that says something.
LastSaid(answers, n) ==
    LET said == {m \in 1..n : answers[m] # {}}
    IN  IF said = {} THEN {} ELSE answers[Max(said)]

LEMMA LastSaidStep ==
    ASSUME NEW answers, NEW n \in Nat
    PROVE  LastSaid(answers, n) =
                IF n = 0 THEN {}
                ELSE IF answers[n] = {} THEN LastSaid(answers, n - 1) ELSE answers[n]
<1>. DEFINE said(k) == {m \in 1..k : answers[m] # {}}
<1>1. CASE n = 0
  BY <1>1 DEF LastSaid
<1>2. CASE n # 0 /\ answers[n] = {}
  <2>1. said(n) = said(n - 1)
    BY <1>2
  <2>. QED  BY <1>2, <2>1 DEF LastSaid
<1>3. CASE n # 0 /\ answers[n] # {}
  <2>1. said(n) \in SUBSET Nat /\ n \in said(n) /\ \A k \in said(n) : k <= n
    BY <1>3
  <2>2. Max(said(n)) = n
    <3>. HIDE DEF said
    <3>. QED  BY <2>1, GreatestIs
  <2>3. LastSaid(answers, n) = answers[Max(said(n))]
    BY <2>1 DEF LastSaid
  <2>. QED  BY <1>3, <2>2, <2>3
<1>. QED  BY <1>1, <1>2, <1>3

\* One step of Walk: what has been said after n answers.
Says(answers, said, n) ==
    IF n = 0 THEN {}
    ELSE IF answers[n] = {} THEN said[n - 1] ELSE answers[n]

\* The function that Walk defines by recursion exists and gives the last answer.
LEMMA WalkSaysTheLast ==
    ASSUME NEW N \in Nat, NEW answers
    PROVE  /\ \E g : g = [n \in 0..N |-> Says(answers, g, n)]
           /\ \A g : g = [n \in 0..N |-> Says(answers, g, n)] => g[N] = LastSaid(answers, N)
<1>1. \E g : g = [n \in 0..N |-> Says(answers, g, n)]
  <2>. DEFINE g == [n \in 0..N |-> LastSaid(answers, n)]
  <2>1. ASSUME NEW n \in 0..N PROVE LastSaid(answers, n) = Says(answers, g, n)
    <3>1. n # 0 => n - 1 \in 0..N /\ g[n - 1] = LastSaid(answers, n - 1)
      OBVIOUS
    <3>. HIDE DEF g
    <3>. QED  BY <3>1, LastSaidStep DEF Says
  <2>2. g = [n \in 0..N |-> Says(answers, g, n)]
    BY <2>1
  <2>. QED  BY <2>2
<1>2. ASSUME NEW g, g = [n \in 0..N |-> Says(answers, g, n)]
      PROVE  g[N] = LastSaid(answers, N)
  <2>. DEFINE Wrong == {n \in 0..N : g[n] # LastSaid(answers, n)}
  <2>1. SUFFICES ASSUME Wrong # {} PROVE FALSE
    OBVIOUS
  <2>2. PICK n \in Wrong : \A m \in Wrong : n <= m
    <3>1. Wrong \in SUBSET Nat
      OBVIOUS
    <3>. HIDE DEF Wrong
    <3>. QED  BY <2>1, <3>1, LeastExists
  <2>3. n \in 0..N /\ g[n] = Says(answers, g, n) /\ g[n] # LastSaid(answers, n)
    <3>1. \A m \in 0..N : g[m] = Says(answers, g, m)
      BY <1>2, Zenon
    <3>. QED  BY <3>1
  <2>4. n # 0 => g[n - 1] = LastSaid(answers, n - 1)
    <3>1. n # 0 => n - 1 \in 0..N /\ ~(n <= n - 1)
      BY <2>3
    <3>. QED  BY <2>2, <3>1
  <2>. QED  BY <2>3, <2>4, LastSaidStep DEF Says
<1>. QED  BY <1>1, <1>2

LEMMA WalkIsTheLast ==
    ASSUME PlansOK, NEW at
    PROVE  Walk(at) = LastSaid(Answers(at), Len(layers) + Len(overrides))
<1>. DEFINE N == Len(layers) + Len(overrides)
            said == CHOOSE g : g = [n \in 0..N |-> Says(Answers(at), g, n)]
<1>1. N \in Nat
  BY PlansType
<1>2. Walk(at) = said[N]
  BY DEF Walk, Says
<1>3. said = [n \in 0..N |-> Says(Answers(at), said, n)]
  <2>. HIDE DEF N
  <2>. QED  BY <1>1, WalkSaysTheLast
<1>. QED
  <2>. HIDE DEF N, said
  <2>. QED  BY <1>1, <1>2, <1>3, WalkSaysTheLast DEF N

\* A layer that has begun names the user whose turn it is, and only that one.
LEMMA OneOnTurn ==
    ASSUME NEW l \in Layer, NEW at \in Nat
    PROVE  /\ l.start <= at => OnTurn(l, at) = {LayerUser(l, at)} /\ LayerUser(l, at) \in User
           /\ ~(l.start <= at) => OnTurn(l, at) = {}
<1>. DEFINE T == l.turn
            s == l.start
            q == (at - s) \div T
            turns == {k \in 0..at : s + k * T <= at /\ at < s + (k + 1) * T}
            user(k) == l.users[(k % Len(l.users)) + 1]
<1>1. T \in Nat \ {0} /\ s \in Nat /\ Len(l.users) \in Nat \ {0} /\ l.users \in Seq(User)
  BY LayerType
<1>2. OnTurn(l, at) = {user(k) : k \in turns} /\ LayerUser(l, at) = user(q)
  BY DEF OnTurn, LayerUser, TurnIndex
<1>3. ASSUME s <= at PROVE turns = {q} /\ q \in Nat
  <2>. HIDE DEF T, s
  <2>1. at - s \in Nat
    BY <1>1, <1>3
  <2>2. /\ q \in Nat
        /\ (at - s) % T \in 0..(T - 1)
        /\ at - s = T * q + ((at - s) % T)
    <3>. DEFINE d == at - s
    <3>1. d \in Nat /\ d \in Int
      BY <2>1
    <3>. HIDE DEF d
    <3>2. d \div T \in Nat /\ d % T \in 0..(T - 1) /\ d = T * (d \div T) + (d % T)
      BY <1>1, <3>1, Division, QuotientIsNat
    <3>. QED  BY <3>2 DEF d
  <2>3. q \in turns
    <3>. HIDE DEF q
    <3>1. T * q \in Nat /\ T * q >= q /\ q * T = T * q /\ (q + 1) * T = T * q + T
      BY <1>1, <2>2
    <3>2. PICK r \in 0..(T - 1) : at - s = T * q + r
      BY <2>2
    <3>. QED  BY <1>1, <2>2, <3>1, <3>2
  <2>4. ASSUME NEW k \in turns PROVE k = q
    <3>1. k \in Int /\ k * T = T * k /\ (k + 1) * T = T * k + T /\ T * k \in Int
      BY <1>1
    <3>2. (at - s) - T * k \in 0..(T - 1)
      BY <1>1, <3>1
    <3>3. at - s = T * k + ((at - s) - T * k)
      BY <1>1, <3>1
    <3>. QED  BY <1>1, <2>1, <3>1, <3>2, <3>3, DivisionIs
  <2>. QED  BY <2>2, <2>3, <2>4
<1>4. ASSUME ~(s <= at) PROVE turns = {}
  <2>. HIDE DEF T, s
  <2>1. \A k \in 0..at : k * T \in Nat
    BY <1>1
  <2>. QED  BY <1>1, <1>4, <2>1
<1>5. ASSUME s <= at PROVE user(q) \in User
  <2>. HIDE DEF q
  <2>. DEFINE n == Len(l.users)
  <2>1. q % Len(l.users) \in 0..(Len(l.users) - 1)
    <3>1. n \in Nat \ {0} /\ q \in Int
      BY <1>1, <1>3, <1>5
    <3>. HIDE DEF n
    <3>2. q % n \in 0..(n - 1)
      BY <3>1, Division
    <3>. QED  BY <3>2 DEF n
  <2>. QED  BY <1>1, <2>1, ElementOfSeq
<1>. QED
  <2>. HIDE DEF turns, q, user
  <2>. QED  BY <1>2, <1>3, <1>4, <1>5 DEF s

LEMMA PlansAgree ==
    ASSUME PlansOK, NEW at \in Times
    PROVE  ResolveOncall(at) = IF Walk(at) = {} THEN Nobody
                               ELSE CHOOSE u \in User : Walk(at) = {u}
<1>. DEFINE L == Len(layers)
            M == Len(overrides)
            said == {n \in 1..(L + M) : Answers(at)[n] # {}}
<1>1. /\ L \in Nat /\ M \in Nat /\ at \in Nat
      /\ DOMAIN layers = 1..L /\ DOMAIN overrides = 1..M
      /\ \A i \in 1..L : layers[i] \in Layer
      /\ \A i \in 1..M : overrides[i] \in Override
  BY PlansType, OnCallAssumption DEF Times
<1>2. \A i \in 1..L : /\ L - i + 1 \in 1..(L + M)
                      /\ Answers(at)[L - i + 1] = OnTurn(layers[i], at)
  <2> TAKE i \in 1..L
  <2>1. L - i + 1 \in 1..(L + M) /\ L - i + 1 <= L /\ L - (L - i + 1) + 1 = i
    BY <1>1
  <2>. QED  BY <2>1 DEF Answers
<1>3. \A i \in 1..M : /\ L + i \in 1..(L + M)
                      /\ Answers(at)[L + i] = IF Active(overrides[i], at)
                                              THEN {overrides[i].user} ELSE {}
  <2> TAKE i \in 1..M
  <2>1. L + i \in 1..(L + M) /\ ~(L + i <= L) /\ (L + i) - L = i
    BY <1>1
  <2>. QED  BY <2>1 DEF Answers
<1>4. \A n \in 1..(L + M) : \/ \E i \in 1..L : n = L - i + 1
                            \/ \E i \in 1..M : n = L + i
  <2> TAKE n \in 1..(L + M)
  <2>1. n <= L => L - n + 1 \in 1..L /\ n = L - (L - n + 1) + 1
    BY <1>1
  <2>2. ~(n <= L) => n - L \in 1..M /\ n = L + (n - L)
    BY <1>1
  <2>. QED  BY <2>1, <2>2
<1>5. Walk(at) = IF said = {} THEN {} ELSE Answers(at)[Max(said)]
  BY WalkIsTheLast DEF LastSaid
<1>6. \A u \in User : (CHOOSE v \in User : {u} = {v}) = u
  OBVIOUS
<1>. HIDE DEF L, M
<1>7. CASE ActiveOverrides(at) # {}
  <2>. DEFINE m == Max(ActiveOverrides(at))
  <2>1. /\ m \in 1..M /\ Active(overrides[m], at)
        /\ \A i \in 1..M : Active(overrides[i], at) => i <= m
    BY <1>1, <1>7, NewestActive DEF ActiveOverrides
  <2>. HIDE DEF m
  <2>2. /\ L + m \in said /\ said \in SUBSET Nat
        /\ Answers(at)[L + m] = {overrides[m].user}
    <3>1. Answers(at)[L + m] = {overrides[m].user} /\ L + m \in 1..(L + M)
      BY <1>3, <2>1
    <3>2. Answers(at)[L + m] # {}
      BY <3>1
    <3>3. L + m \in said
      BY <3>1, <3>2
    <3>. QED  BY <1>1, <3>1, <3>3
  <2>3. \A n \in said : n <= L + m
    <3> TAKE n \in said
    <3>1. CASE \E i \in 1..L : n = L - i + 1
      <4>1. PICK i \in 1..L : n = L - i + 1
        BY <3>1
      <4>. HIDE DEF said
      <4>. QED  BY <1>1, <2>1, <4>1
    <3>2. CASE \E i \in 1..M : n = L + i
      <4>1. PICK i \in 1..M : n = L + i
        BY <3>2
      <4>2. Active(overrides[i], at)
        BY <1>3, <4>1
      <4>. HIDE DEF said
      <4>. QED  BY <1>1, <2>1, <4>1, <4>2
    <3>. QED  BY <1>4, <3>1, <3>2
  <2>4. Max(said) = L + m
    <3>. HIDE DEF said
    <3>. QED  BY <2>2, <2>3, GreatestIs
  <2>5. Walk(at) = {overrides[m].user}
    BY <1>5, <2>2, <2>4
  <2>6. overrides[m].user \in User
    BY <1>1, <2>1, OverrideType
  <2>7. ResolveOncall(at) = overrides[m].user
    BY <1>7 DEF ResolveOncall, m
  <2>. QED  BY <1>6, <2>5, <2>6, <2>7
<1>8. CASE ActiveOverrides(at) = {} /\ StartedLayers(at) # {}
  <2>. DEFINE m == Min(StartedLayers(at))
  <2>1. /\ m \in 1..L /\ layers[m].start <= at
        /\ \A i \in 1..L : layers[i].start <= at => m <= i
    <3>1. StartedLayers(at) \in SUBSET Nat
      BY <1>1 DEF StartedLayers
    <3>. QED  BY <1>1, <1>8, <3>1, LeastOf DEF StartedLayers
  <2>. HIDE DEF m
  <2>2. /\ L - m + 1 \in said /\ said \in SUBSET Nat
        /\ Answers(at)[L - m + 1] = {LayerUser(layers[m], at)}
        /\ LayerUser(layers[m], at) \in User
    <3>1. layers[m] \in Layer
      BY <1>1, <2>1
    <3>2. /\ OnTurn(layers[m], at) = {LayerUser(layers[m], at)}
          /\ LayerUser(layers[m], at) \in User
      BY <1>1, <2>1, <3>1, OneOnTurn
    <3>3. /\ Answers(at)[L - m + 1] = {LayerUser(layers[m], at)}
          /\ L - m + 1 \in 1..(L + M)
      BY <1>2, <2>1, <3>2
    <3>4. Answers(at)[L - m + 1] # {}
      BY <3>3
    <3>5. L - m + 1 \in said
      BY <3>3, <3>4
    <3>. QED  BY <1>1, <3>2, <3>3, <3>5
  <2>3. \A n \in said : n <= L - m + 1
    <3> TAKE n \in said
    <3>1. CASE \E i \in 1..L : n = L - i + 1
      <4>1. PICK i \in 1..L : n = L - i + 1
        BY <3>1
      <4>2. layers[i].start <= at
        BY <1>1, <1>2, <4>1, OneOnTurn
      <4>. QED  BY <1>1, <2>1, <4>1, <4>2
    <3>2. CASE \E i \in 1..M : n = L + i
      BY <1>1, <1>3, <1>8, <3>2 DEF ActiveOverrides
    <3>. QED  BY <1>4, <3>1, <3>2
  <2>4. Max(said) = L - m + 1
    <3>. HIDE DEF said
    <3>. QED  BY <2>2, <2>3, GreatestIs
  <2>5. Walk(at) = {LayerUser(layers[m], at)}
    BY <1>5, <2>2, <2>4
  <2>6. ResolveOncall(at) = LayerUser(layers[m], at)
    BY <1>8 DEF ResolveOncall, m
  <2>. QED  BY <1>6, <2>2, <2>5, <2>6
<1>9. CASE ActiveOverrides(at) = {} /\ StartedLayers(at) = {}
  <2>1. said = {}
    <3> SUFFICES ASSUME NEW n \in said PROVE FALSE
      OBVIOUS
    <3>1. CASE \E i \in 1..L : n = L - i + 1
      BY <1>1, <1>2, <1>9, <3>1, OneOnTurn DEF StartedLayers
    <3>2. CASE \E i \in 1..M : n = L + i
      BY <1>1, <1>3, <1>9, <3>2 DEF ActiveOverrides
    <3>. QED  BY <1>4, <3>1, <3>2
  <2>. QED  BY <1>5, <1>9, <2>1 DEF ResolveOncall
<1>. QED  BY <1>7, <1>8, <1>9

\* Looking from the top and stopping at the first answer names the user whom the
\* documented walk from the bottom ends with, or nobody if it names nobody.
THEOREM ResolvesAsDocumented == OnCallSpec => []AsDocumented
<1>1. PlansOK => AsDocumented
  BY PlansAgree DEF AsDocumented
<1>. QED  BY <1>1, PlansAreTyped, PTL
=============================================================================
