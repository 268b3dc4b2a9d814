------------------------ MODULE ConnectionPoolProofs ------------------------
(***************************************************************************)
(* Theorems about the connections of one process, for any number of        *)
(* requests, any limits and any number of outages.                         *)
(***************************************************************************)
EXTENDS ConnectionPool, FiniteSetTheorems, TLAPS

-----------------------------------------------------------------------------
(* The invariant *)

\* A request holds a connection exactly while it works.
HeldWhileWorking == \A r \in Requests : conn[r] # None <=> pc[r] \in Working

\* A server that is down has gone down; no connection is to an incarnation that did
\* not come up yet.
Incarnated ==
    /\ ~up => outages > 0
    /\ \A r \in Holders : conn[r] <= outages /\ (conn[r] = outages => up)

\* A connection was made, or found alive, after its request began, and a request that
\* met no outage finds the server up.
SinceBegun ==
    /\ \A r \in Requests : since[r] <= outages /\ (~up => since[r] < outages)
    /\ \A r \in Holders : since[r] <= conn[r]

WithinLimit == Cardinality(Holders) + Idle <= PoolSize + Overflow

IInv == /\ TypeOK
        /\ HeldWhileWorking
        /\ Incarnated
        /\ SinceBegun
        /\ WithinLimit
        /\ FailsOnlyInAnOutage

LEMMA Constants == PoolSize \in Nat /\ Overflow \in Nat /\ MaxOutages \in Nat /\ None \notin Nat
BY LimitAssumption, OutageAssumption

LEMMA HoldersFinite == IsFiniteSet(Holders) /\ Cardinality(Holders) \in Nat
<1>1. IsFiniteSet(Holders)
    BY RequestAssumption, FS_Subset DEF Holders
<1> QED
    BY <1>1, FS_CardinalityType

\* A request that takes a connection is one holder more.
LEMMA TakenOn ==
    ASSUME TypeOK, NEW r \in Requests, conn[r] = None,
           NEW c \in Nat, conn' = [conn EXCEPT ![r] = c]
    PROVE  Holders' = Holders \cup {r} /\ Cardinality(Holders') = Cardinality(Holders) + 1
<1>1. Holders' = Holders \cup {r} /\ r \notin Holders
    BY Constants DEF TypeOK, Holders
<1> QED
    BY <1>1, HoldersFinite, FS_AddElement

\* A request that gives one up is one less.
LEMMA GivenUp ==
    ASSUME TypeOK, NEW r \in Requests, conn[r] # None, conn' = [conn EXCEPT ![r] = None]
    PROVE  Holders' = Holders \ {r} /\ Cardinality(Holders') = Cardinality(Holders) - 1
<1>1. Holders' = Holders \ {r} /\ r \in Holders
    BY DEF TypeOK, Holders
<1> QED
    BY <1>1, HoldersFinite, FS_RemoveElement

-----------------------------------------------------------------------------
(* Each step keeps the invariant *)

LEMMA InvInit == Init => IInv
<1> SUFFICES ASSUME Init PROVE IInv
    OBVIOUS
<1>1. Holders = {} /\ Cardinality(Holders) = 0
    BY FS_EmptySet DEF Init, Holders
<1>2. TypeOK
    BY Constants DEF Init, TypeOK, Incarnations
<1>3. HeldWhileWorking /\ Incarnated /\ SinceBegun /\ FailsOnlyInAnOutage
    BY <1>1 DEF Init, HeldWhileWorking, Incarnated, SinceBegun, FailsOnlyInAnOutage, Working
<1>4. WithinLimit
    BY <1>1, Constants DEF Init, WithinLimit, Idle
<1> QED
    BY <1>2, <1>3, <1>4 DEF IInv

\* A request that goes on and leaves the pool alone.
LEMMA InvGoesOn ==
    ASSUME IInv, NEW r \in Requests,
           NEW l \in {"streaming", "pool_timeout", "gone"} \cup Waiting \cup Working,
           Goto(r, l), l \in Working <=> pc[r] \in Working,
           UNCHANGED <<op, conn, fresh, stale, outages, up, since>>
    PROVE  IInv'
<1>1. pc' = [pc EXCEPT ![r] = l] /\ Holders' = Holders /\ Idle' = Idle
    BY DEF Goto, Holders, Idle
<1>2. TypeOK'
    BY <1>1 DEF IInv, TypeOK, Over
<1>3. HeldWhileWorking'
    BY <1>1 DEF IInv, TypeOK, HeldWhileWorking
<1>4. FailsOnlyInAnOutage'
    BY <1>1 DEF IInv, TypeOK, FailsOnlyInAnOutage, Waiting, Working
<1>5. (Incarnated /\ SinceBegun /\ WithinLimit)'
    BY <1>1 DEF IInv, Incarnated, SinceBegun, WithinLimit
<1> QED
    BY <1>2, <1>3, <1>4, <1>5 DEF IInv

LEMMA IdleIsNat == ASSUME TypeOK PROVE Idle \in Nat
BY Constants DEF TypeOK, Idle

\* What a connection given back makes of the pool.
LEMMA GivenBack ==
    ASSUME TypeOK, NEW c, GiveBack(c)
    PROVE  /\ fresh' \in 0..PoolSize /\ stale' \in 0..PoolSize - fresh'
           /\ Idle' \in Nat /\ Idle' <= Idle + 1
BY Constants DEF TypeOK, GiveBack, Idle

LEMMA InvRelease ==
    ASSUME IInv, NEW r \in Requests, pc[r] \in Working,
           NEW l \in {"answered", "streaming"}, Goto(r, l), Release(r),
           UNCHANGED <<op, outages, up, since>>
    PROVE  IInv'
<1>1. conn[r] # None /\ conn' = [conn EXCEPT ![r] = None] /\ pc' = [pc EXCEPT ![r] = l]
    BY DEF IInv, HeldWhileWorking, Release, Goto
<1>2. Holders' = Holders \ {r} /\ Cardinality(Holders') = Cardinality(Holders) - 1
    BY <1>1, GivenUp DEF IInv
<1>3. fresh' \in 0..PoolSize /\ stale' \in 0..PoolSize - fresh' /\ Idle' \in Nat
      /\ Idle' <= Idle + 1
    BY GivenBack DEF IInv, Release
<1>4. TypeOK'
    BY <1>1, <1>3 DEF IInv, TypeOK, Over
<1>5. HeldWhileWorking' /\ FailsOnlyInAnOutage'
    BY <1>1 DEF IInv, TypeOK, HeldWhileWorking, FailsOnlyInAnOutage, Working
<1>6. Incarnated' /\ SinceBegun'
    BY <1>1, <1>2 DEF IInv, TypeOK, Holders, Incarnated, SinceBegun
<1>7. WithinLimit'
    BY <1>2, <1>3, Constants, HoldersFinite, IdleIsNat DEF IInv, WithinLimit
<1> QED
    BY <1>4, <1>5, <1>6, <1>7 DEF IInv

LEMMA InvBegin == ASSUME IInv, NEW r \in Requests, Begin(r) PROVE IInv'
<1>1. pc' = [pc EXCEPT ![r] = "asking"] /\ Holders' = Holders /\ Idle' = Idle /\ conn[r] = None
    BY DEF IInv, HeldWhileWorking, Begin, Goto, Holders, Idle, Working
<1>2. since' = [since EXCEPT ![r] = IF up THEN outages ELSE outages - 1]
      /\ UNCHANGED <<op, conn, fresh, stale, outages, up>>
    BY DEF Begin
<1>3. TypeOK'
    BY <1>1, <1>2, Constants DEF IInv, TypeOK, Incarnated, Incarnations, Waiting
<1>4. HeldWhileWorking'
    BY <1>1, <1>2 DEF IInv, TypeOK, HeldWhileWorking, Working
<1>5. Incarnated' /\ WithinLimit'
    BY <1>1, <1>2 DEF IInv, Incarnated, WithinLimit
<1>6. SinceBegun'
    <2>1. r \notin Holders
        BY <1>1 DEF Holders
    <2> QED
        BY <1>1, <1>2, <2>1, Constants DEF IInv, TypeOK, SinceBegun, Incarnations, Holders
<1>7. FailsOnlyInAnOutage'
    BY <1>1, <1>2 DEF IInv, TypeOK, FailsOnlyInAnOutage
<1> QED
    BY <1>3, <1>4, <1>5, <1>6, <1>7 DEF IInv

LEMMA InvCheckout == ASSUME IInv, NEW r \in Requests, Checkout(r) PROVE IInv'
<1>1. conn[r] = None /\ pc[r] \in Waiting /\ Free /\ TakeIdle
      /\ UNCHANGED <<op, outages, up, since>>
    BY DEF IInv, HeldWhileWorking, Checkout, Waiting, Working
<1>2. /\ fresh' \in 0..PoolSize /\ stale' \in 0..PoolSize - fresh'
      /\ Idle' = IF Idle = 0 THEN 0 ELSE Idle - 1
    BY <1>1, Constants DEF IInv, TypeOK, TakeIdle, Idle
<1>3. CASE up /\ conn' = [conn EXCEPT ![r] = outages] /\ Goto(r, Onward(r))
    <2>1. Onward(r) \in {"using", "closing"} /\ pc' = [pc EXCEPT ![r] = Onward(r)]
        BY <1>3 DEF Onward, Goto
    <2>2. outages \in Nat /\ outages # None
        BY Constants DEF IInv, TypeOK, Incarnations
    <2>3. Holders' = Holders \cup {r} /\ Cardinality(Holders') = Cardinality(Holders) + 1
        BY <1>1, <1>3, <2>2, TakenOn DEF IInv
    <2>4. TypeOK'
        BY <1>1, <1>2, <1>3, <2>1 DEF IInv, TypeOK, Working
    <2>5. HeldWhileWorking' /\ FailsOnlyInAnOutage'
        BY <1>1, <1>3, <2>1, <2>2 DEF IInv, TypeOK, HeldWhileWorking, FailsOnlyInAnOutage, Working
    <2>6. Incarnated' /\ SinceBegun'
        BY <1>1, <1>3, <2>2, <2>3 DEF IInv, TypeOK, Incarnated, SinceBegun, Incarnations
    <2>7. WithinLimit'
        BY <1>1, <1>2, <2>3, Constants, HoldersFinite, IdleIsNat DEF IInv, WithinLimit, Free
    <2> QED
        BY <2>4, <2>5, <2>6, <2>7 DEF IInv
<1>4. CASE ~up /\ Goto(r, "db_error") /\ UNCHANGED conn
    <2>1. pc' = [pc EXCEPT ![r] = "db_error"] /\ Holders' = Holders
        BY <1>4 DEF Goto, Holders
    <2>2. TypeOK'
        BY <1>1, <1>2, <1>4, <2>1 DEF IInv, TypeOK, Over
    <2>3. HeldWhileWorking' /\ Incarnated' /\ SinceBegun'
        BY <1>1, <1>4, <2>1 DEF IInv, TypeOK, HeldWhileWorking, Incarnated, SinceBegun, Working
    <2>4. WithinLimit'
        BY <1>2, <2>1, Constants, HoldersFinite, IdleIsNat DEF IInv, WithinLimit
    <2>5. FailsOnlyInAnOutage'
        BY <1>1, <1>4, <2>1 DEF IInv, TypeOK, FailsOnlyInAnOutage, SinceBegun
    <2> QED
        BY <2>2, <2>3, <2>4, <2>5 DEF IInv
<1> QED
    BY <1>3, <1>4 DEF Checkout

LEMMA InvBreak == ASSUME IInv, NEW r \in Requests, Break(r) PROVE IInv'
<1>1. /\ pc[r] \in Working /\ Dead(conn[r])
      /\ pc' = [pc EXCEPT ![r] = "db_error"] /\ conn' = [conn EXCEPT ![r] = None]
      /\ UNCHANGED <<op, fresh, stale, outages, up, since>>
    BY DEF Break, Goto, Working
<1>2. conn[r] # None /\ r \in Holders /\ conn[r] \in Nat /\ outages \in Nat /\ since[r] \in Nat
    BY <1>1, Constants DEF IInv, TypeOK, HeldWhileWorking, Holders, Incarnations
<1>3. Holders' = Holders \ {r} /\ Cardinality(Holders') = Cardinality(Holders) - 1
    BY <1>1, <1>2, GivenUp DEF IInv
<1>4. TypeOK'
    BY <1>1 DEF IInv, TypeOK, Over
<1>5. HeldWhileWorking'
    BY <1>1 DEF IInv, TypeOK, HeldWhileWorking, Working
<1>6. Incarnated' /\ SinceBegun'
    BY <1>1, <1>3 DEF IInv, TypeOK, Holders, Incarnated, SinceBegun
<1>7. WithinLimit'
    <2>1. Idle' = Idle
        BY <1>1 DEF Idle
    <2> QED
        BY <1>3, <2>1, Constants, HoldersFinite, IdleIsNat DEF IInv, WithinLimit
<1>8. outages > since[r]
    BY <1>1, <1>2 DEF IInv, Incarnated, SinceBegun, Dead
<1>9. FailsOnlyInAnOutage'
    BY <1>1, <1>8 DEF IInv, TypeOK, FailsOnlyInAnOutage
<1> QED
    BY <1>4, <1>5, <1>6, <1>7, <1>9 DEF IInv

LEMMA InvServer == ASSUME IInv, GoDown \/ ComeBack PROVE IInv'
<1>1. outages \in Nat /\ outages' \in {outages, outages + 1}
      /\ \/ up /\ ~up' /\ outages' = outages + 1
         \/ ~up /\ up' /\ outages' = outages
    BY DEF IInv, TypeOK, Incarnations, GoDown, ComeBack
<1>2. Holders' = Holders /\ UNCHANGED <<op, pc, conn, since>>
    BY DEF GoDown, ComeBack, Holders
<1>3. TypeOK' /\ Idle' = Idle
    <2>1. fresh' \in 0..PoolSize /\ stale' \in 0..PoolSize - fresh' /\ Idle' = Idle
        BY Constants DEF IInv, TypeOK, GoDown, ComeBack, Idle
    <2>2. outages' \in Incarnations
        BY Constants DEF IInv, TypeOK, Incarnations, GoDown, ComeBack
    <2>3. up' \in BOOLEAN
        BY Zenon DEF GoDown, ComeBack
    <2> QED
        BY <1>2, <2>1, <2>2, <2>3 DEF IInv, TypeOK
<1>4. \A r \in Requests : since[r] \in Nat /\ (r \in Holders => conn[r] \in Nat)
    BY DEF IInv, TypeOK, Incarnations, Holders
<1>5. HeldWhileWorking' /\ WithinLimit'
    BY <1>2, <1>3 DEF IInv, HeldWhileWorking, WithinLimit
<1>6. Incarnated'
    BY <1>1, <1>2, <1>4 DEF IInv, Incarnated, Holders
<1>7. SinceBegun' /\ FailsOnlyInAnOutage'
    BY <1>1, <1>2, <1>4 DEF IInv, SinceBegun, FailsOnlyInAnOutage
<1> QED
    BY <1>3, <1>5, <1>6, <1>7 DEF IInv

LEMMA InvNext == ASSUME IInv, [Next]_vars PROVE IInv'
<1>1. ASSUME NEW r \in Requests, Begin(r) \/ Checkout(r) \/ Break(r)
      PROVE  IInv'
    BY <1>1, InvBegin, InvCheckout, InvBreak
<1>2. ASSUME NEW r \in Requests, TimeOut(r) \/ Reply(r) \/ Disconnect(r)
      PROVE  IInv'
    <2>1. CASE TimeOut(r)
        BY <2>1, InvGoesOn DEF TimeOut, Waiting, Working
    <2>2. CASE Reply(r)
        BY <2>2, InvGoesOn DEF Reply, Waiting, Working
    <2>3. CASE Disconnect(r)
        BY <2>3, InvGoesOn DEF Disconnect, Waiting, Working
    <2> QED
        BY <1>2, <2>1, <2>2, <2>3
<1>3. ASSUME NEW r \in Requests, Close(r)
      PROVE  IInv'
    BY <1>3, InvRelease DEF Close, Working
<1>4. ASSUME NEW r \in Requests, Work(r)
      PROVE  IInv'
    <2>1. CASE Goto(r, "completing") /\ UNCHANGED <<conn, fresh, stale>>
        BY <1>4, <2>1, InvGoesOn DEF Work, Working
    <2>2. CASE Goto(r, "answered") /\ Release(r)
        BY <1>4, <2>2, InvRelease DEF Work, Working
    <2>3. CASE op[r] = "stream" /\ Goto(r, "streaming") /\ Release(r)
        BY <1>4, <2>3, InvRelease DEF Work, Working
    <2> QED
        BY <1>4, <2>1, <2>2, <2>3 DEF Work
<1>5. CASE UNCHANGED vars
    <2>1. UNCHANGED <<op, pc, conn, fresh, stale, outages, up, since>>
        BY <1>5 DEF vars
    <2> QED
        BY <2>1 DEF IInv, TypeOK, HeldWhileWorking, Incarnated, SinceBegun, WithinLimit,
                    FailsOnlyInAnOutage, Holders, Idle
<1> QED
    BY <1>1, <1>2, <1>3, <1>4, <1>5, InvServer DEF Next, Serve, Quiescent

LEMMA IInvHolds == Spec => []IInv
BY InvInit, InvNext, PTL DEF Spec

-----------------------------------------------------------------------------
(* Theorems *)

\* Counts, stages and incarnations keep their types: the pool never keeps more idle
\* connections than its size (pool_size).
THEOREM TypeCorrect == Spec => []TypeOK
BY IInvHolds, PTL DEF IInv

\* No connection is lost or made beyond the limit, and who is over, or waits for the
\* provider's stream, or for a connection, holds none (max_overflow, _close_db).
THEOREM NoneIsLost == Spec => []ConnectionsAccounted
<1>1. IInv => ConnectionsAccounted
    BY DEF IInv, WithinLimit, HeldWhileWorking, ConnectionsAccounted, Holders
<1> QED
    BY <1>1, IInvHolds, PTL

\* A request fails on the database only if an outage fell into its own lifetime
\* (pool_pre_ping).
THEOREM StaleOnesReachNobody == Spec => []FailsOnlyInAnOutage
BY IInvHolds, PTL DEF IInv

=============================================================================
