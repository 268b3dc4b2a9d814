--------------------------- MODULE ConnectionPool ---------------------------
(***************************************************************************)
(* The connections of one worker process (infrastructure/db/session.py):   *)
(* the requests of its greenlets take one from SQLAlchemy's pool, keep it  *)
(* through a transaction and give it back, while the provider takes its    *)
(* time and PostgreSQL may go down and come back.                          *)
(*                                                                         *)
(* A connection is known by the incarnation of the server it was made to:  *)
(* it is dead when that one is.                                            *)
(***************************************************************************)
EXTENDS Integers, FiniteSets

CONSTANTS
    Requests,
    PoolSize,       \* connections the pool keeps (5)
    Overflow,       \* connections it opens beyond them (10)
    MaxOutages,     \* bound of the model: how often the server goes down
    None            \* no connection

ASSUME RequestAssumption == IsFiniteSet(Requests)
ASSUME LimitAssumption == PoolSize \in Nat /\ Overflow \in Nat /\ PoolSize + Overflow > 0
ASSUME OutageAssumption == MaxOutages \in Nat /\ None \notin Nat

VARIABLES
    op,         \* what each request is
    pc,         \* how far it has come
    conn,       \* the connection it holds, by its incarnation
    fresh,      \* idle connections in the pool, to the server as it is
    stale,      \* idle connections to an earlier incarnation
    outages,    \* how often the server has gone down: its incarnation
    up,         \* whether it is up
    since       \* history variable: outages that were over when the request began

vars == <<op, pc, conn, fresh, stale, outages, up, since>>

-----------------------------------------------------------------------------
(* Types *)

\* short: any route of one transaction; send and stream: the two message routes;
\* ready: the readiness probe.
Ops == {"short", "send", "stream", "ready"}
Waiting == {"asking", "persisting"}
Working == {"using", "completing", "closing"}
Over == {"answered", "db_error", "pool_timeout", "gone"}
Incarnations == 0..MaxOutages

TypeOK ==
    /\ op \in [Requests -> Ops]
    /\ pc \in [Requests -> {"idle", "streaming"} \cup Waiting \cup Working \cup Over]
    /\ conn \in [Requests -> Incarnations \cup {None}]
    /\ fresh \in 0..PoolSize /\ stale \in 0..PoolSize - fresh
    /\ outages \in Incarnations
    /\ up \in BOOLEAN
    /\ since \in [Requests -> Incarnations]

-----------------------------------------------------------------------------
(* The pool *)

Holders == {r \in Requests : conn[r] # None}
Idle == fresh + stale
Free == Idle > 0 \/ Cardinality(Holders) < PoolSize + Overflow
Dead(c) == c # outages \/ ~up

\* One idle connection less, if there is one.
TakeIdle ==
    \/ fresh > 0 /\ fresh' = fresh - 1 /\ UNCHANGED stale
    \/ stale > 0 /\ stale' = stale - 1 /\ UNCHANGED fresh
    \/ Idle = 0 /\ UNCHANGED <<fresh, stale>>

\* Mutant: every connection given back is kept.
GiveBackAll(c) ==
    \/ ~Dead(c) /\ fresh' = fresh + 1 /\ UNCHANGED stale
    \/ Dead(c) /\ stale' = stale + 1 /\ UNCHANGED fresh

\* Given back, a connection is kept if there is room, and may be found dead or not
\* by the rollback that goes with it.
GiveBack(c) ==
    \/ Idle < PoolSize /\ ~Dead(c) /\ fresh' = fresh + 1 /\ UNCHANGED stale
    \/ Idle < PoolSize /\ Dead(c) /\ stale' = stale + 1 /\ UNCHANGED fresh
    \/ (Idle = PoolSize \/ Dead(c)) /\ UNCHANGED <<fresh, stale>>

Goto(r, l) == pc' = [pc EXCEPT ![r] = l]
Release(r) == conn' = [conn EXCEPT ![r] = None] /\ GiveBack(conn[r])

-----------------------------------------------------------------------------
Init ==
    /\ op \in [Requests -> Ops]
    /\ pc = [r \in Requests |-> "idle"]
    /\ conn = [r \in Requests |-> None]
    /\ fresh = 0
    /\ stale = 0
    /\ outages = 0
    /\ up = TRUE
    /\ since = [r \in Requests |-> 0]

\* A request arrives and needs the database: for its token, or to probe it.
Begin(r) ==
    /\ pc[r] = "idle"
    /\ Goto(r, "asking")
    /\ since' = [since EXCEPT ![r] = IF up THEN outages ELSE outages - 1]
    /\ UNCHANGED <<op, conn, fresh, stale, outages, up>>

\* The stage after a checkout: the transaction, or the one that stores the reply.
Onward(r) == IF pc[r] = "persisting" THEN "closing" ELSE "using"

\* Mutant: idle connections are handed out untested.
CheckoutUntested(r) ==
    /\ pc[r] \in Waiting
    /\ Free
    /\ \/ /\ Idle > 0 /\ TakeIdle
          /\ \E c \in 0..outages :
                /\ c = outages /\ up <=> fresh' # fresh
                /\ conn' = [conn EXCEPT ![r] = c]
          /\ Goto(r, Onward(r))
       \/ /\ Idle = 0 /\ up
          /\ conn' = [conn EXCEPT ![r] = outages]
          /\ Goto(r, Onward(r))
          /\ UNCHANGED <<fresh, stale>>
       \/ /\ Idle = 0 /\ ~up
          /\ Goto(r, "db_error")
          /\ UNCHANGED <<conn, fresh, stale>>
    /\ UNCHANGED <<op, outages, up, since>>

\* An idle connection is pinged before it is handed out (pool_pre_ping) and made
\* anew if it is dead; without an idle one, one is made.
Checkout(r) ==
    /\ pc[r] \in Waiting
    /\ Free
    /\ TakeIdle
    /\ \/ /\ up
          /\ conn' = [conn EXCEPT ![r] = outages]
          /\ Goto(r, Onward(r))
       \/ /\ ~up
          /\ Goto(r, "db_error")
          /\ UNCHANGED conn
    /\ UNCHANGED <<op, outages, up, since>>

\* All are taken, and the time to wait for one (30 s) is over.
TimeOut(r) ==
    /\ pc[r] \in Waiting
    /\ ~Free
    /\ Goto(r, "pool_timeout")
    /\ UNCHANGED <<op, conn, fresh, stale, outages, up, since>>

\* Mutant: the user turn is only flushed, and its transaction lasts as long as the
\* stream.
WorkUncommitted(r) ==
    /\ pc[r] = "using"
    /\ ~Dead(conn[r])
    /\ \/ op[r] = "send" /\ Goto(r, "completing") /\ UNCHANGED <<conn, fresh, stale>>
       \/ op[r] = "stream" /\ Goto(r, "streaming") /\ UNCHANGED <<conn, fresh, stale>>
       \/ op[r] \in {"short", "ready"} /\ Goto(r, "answered") /\ Release(r)
    /\ UNCHANGED <<op, outages, up, since>>

\* The statements succeed.  A send flushes and goes to the provider within its
\* transaction; a stream commits first, and so gives its connection back; all
\* others are done.
Work(r) ==
    /\ pc[r] = "using"
    /\ ~Dead(conn[r])
    /\ \/ op[r] = "send" /\ Goto(r, "completing") /\ UNCHANGED <<conn, fresh, stale>>
       \/ op[r] = "stream" /\ Goto(r, "streaming") /\ Release(r)
       \/ op[r] \in {"short", "ready"} /\ Goto(r, "answered") /\ Release(r)
    /\ UNCHANGED <<op, outages, up, since>>

\* The provider has answered or raised.  A send that has its reply stores it on the
\* connection it kept, a failed one rolls back on it; a stream asks for one.
Reply(r) ==
    /\ \/ pc[r] = "completing" /\ Goto(r, "closing")
       \/ pc[r] = "streaming" /\ Goto(r, "persisting")
    /\ UNCHANGED <<op, conn, fresh, stale, outages, up, since>>

\* The last commit or rollback, and the end of the request.
Close(r) ==
    /\ pc[r] = "closing"
    /\ ~Dead(conn[r])
    /\ Goto(r, "answered")
    /\ Release(r)
    /\ UNCHANGED <<op, outages, up, since>>

\* Mutant: a failed request's session is left open.
BreakUnclosed(r) ==
    /\ pc[r] \in {"using", "closing"}
    /\ Dead(conn[r])
    /\ Goto(r, "db_error")
    /\ UNCHANGED <<op, conn, fresh, stale, outages, up, since>>

\* A statement meets a dead connection: the request fails, _close_db closes its
\* session, and the connection is thrown away.
Break(r) ==
    /\ pc[r] \in {"using", "closing"}
    /\ Dead(conn[r])
    /\ Goto(r, "db_error")
    /\ conn' = [conn EXCEPT ![r] = None]
    /\ UNCHANGED <<op, fresh, stale, outages, up, since>>

\* A streaming client goes away.
Disconnect(r) ==
    /\ pc[r] = "streaming"
    /\ Goto(r, "gone")
    /\ UNCHANGED <<op, conn, fresh, stale, outages, up, since>>

\* The server goes down, and comes back as its next incarnation; what idles in the
\* pool is stale from then on.
GoDown ==
    /\ up
    /\ outages < MaxOutages
    /\ up' = FALSE
    /\ outages' = outages + 1
    /\ fresh' = 0
    /\ stale' = Idle
    /\ UNCHANGED <<op, pc, conn, since>>

ComeBack ==
    /\ ~up
    /\ up' = TRUE
    /\ UNCHANGED <<op, pc, conn, fresh, stale, outages, since>>

Quiescent == (\A r \in Requests : pc[r] \in Over) /\ UNCHANGED vars

Serve(r) == Checkout(r) \/ Work(r) \/ Close(r) \/ Break(r)

Next ==
    \/ \E r \in Requests : Begin(r) \/ Serve(r) \/ TimeOut(r) \/ Reply(r) \/ Disconnect(r)
    \/ GoDown \/ ComeBack \/ Quiescent

Spec == Init /\ [][Next]_vars

\* Greenlets are scheduled.  The provider may take for ever, and nothing is assumed
\* of the pool's timeout.
FairSpec == Spec /\ \A r \in Requests : WF_vars(Serve(r))

-----------------------------------------------------------------------------
(* Safety *)

\* No connection is lost or made beyond the limit: with the requests and idle ones
\* are never more than the pool may open, a request that is over or waits for the
\* provider's stream has given its own back, and nobody waits for a second one
\* (a readiness probe, which opens its own, has no session), so that no circle of
\* waiting requests can close.
ConnectionsAccounted ==
    /\ Cardinality(Holders) + Idle <= PoolSize + Overflow
    /\ \A r \in Holders : pc[r] \in Working

\* Only an outage during its own lifetime makes a request fail on its connection:
\* what an earlier outage left in the pool never reaches a later request
\* (pool_pre_ping).
FailsOnlyInAnOutage ==
    \A r \in Requests : pc[r] = "db_error" => outages > since[r]

(* Liveness, under FairSpec *)

\* Streams never keep the others waiting, however long the provider takes: who waits
\* for a connection gets on, unless sends that wait for their replies hold them all
\* (stream_message commits before it opens the response).
ServedUnlessSendsHoldAll ==
    \A r \in Requests : pc[r] \in Waiting ~>
        \/ pc[r] \notin Waiting
        \/ ~Free /\ \A h \in Holders : op[h] = "send" /\ pc[h] = "completing"
=============================================================================
