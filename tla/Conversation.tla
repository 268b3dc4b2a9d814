---------------------------- MODULE Conversation ----------------------------
(***************************************************************************)
(* What a chat session promises its owner, with the database, the workers, *)
(* the provider and everybody else's requests out of sight: turns are said *)
(* in a session that is there and belongs to who says them; a turn waits   *)
(* for its reply, gets it once, or is given up by its client or its        *)
(* worker; nothing is forgotten but a session as a whole, by its owner and *)
(* for ever.                                                               *)
(***************************************************************************)
CONSTANTS
    Users,
    Sessions,
    Turns,      \* what may be said, or asked to be forgotten, each at most once
    Nobody      \* owns a session that has never been opened

VARIABLES
    status,     \* of each session: unused, live or deleted
    owner,      \* of each session
    asks,       \* whose each turn is, and for which session; never changes
    stage       \* of each turn: absent, waiting, answered or abandoned

vars == <<status, owner, asks, stage>>

Init ==
    /\ status = [s \in Sessions |-> "unused"]
    /\ owner = [s \in Sessions |-> Nobody]
    /\ asks \in [Turns -> [actor : Users, session : Sessions]]
    /\ stage = [t \in Turns |-> "absent"]

\* Who asked is at home: the session is there and theirs.
AtHome(t) == LET s == asks[t].session
             IN  status[s] = "live" /\ owner[s] = asks[t].actor

\* A session comes into being for one user.
Open(s, u) ==
    /\ status[s] = "unused"
    /\ status' = [status EXCEPT ![s] = "live"]
    /\ owner' = [owner EXCEPT ![s] = u]
    /\ UNCHANGED <<asks, stage>>

Becomes(t, from, to) ==
    /\ stage[t] = from
    /\ AtHome(t)
    /\ stage' = [stage EXCEPT ![t] = to]
    /\ UNCHANGED <<status, owner, asks>>

\* A streamed turn is there before its reply, which then comes or is given up.
Say(t) == Becomes(t, "absent", "waiting")
Answer(t) == Becomes(t, "waiting", "answered")
Abandon(t) == Becomes(t, "waiting", "abandoned")

\* A turn and its reply together.
Exchange(t) == Becomes(t, "absent", "answered")

\* The owner's session is forgotten with everything said in it.
Forget(t) ==
    /\ AtHome(t)
    /\ status' = [status EXCEPT ![asks[t].session] = "deleted"]
    /\ stage' = [q \in Turns |-> IF asks[q].session = asks[t].session THEN "absent" ELSE stage[q]]
    /\ UNCHANGED <<owner, asks>>

Next ==
    \/ \E s \in Sessions, u \in Users : Open(s, u)
    \/ \E t \in Turns : Say(t) \/ Answer(t) \/ Abandon(t) \/ Exchange(t) \/ Forget(t)

Spec == Init /\ [][Next]_vars
=============================================================================
