------------------------------ MODULE ChatTurns ------------------------------
(***************************************************************************)
(* Chat turns against one database: the requests of application/           *)
(* chat_service.py behind interface/api/chat.py, run concurrently by       *)
(* gunicorn's gevent workers, each with its own SQLAlchemy session, over   *)
(* the tables chat_sessions and messages in PostgreSQL (READ COMMITTED).   *)
(*                                                                         *)
(* One action is what a request does between two points at which another   *)
(* request can be seen to interfere: a SELECT, a flush that takes a lock,  *)
(* a COMMIT.  Message content is abstracted away; a row is known by the    *)
(* request that wrote it.                                                  *)
(***************************************************************************)
EXTENDS Integers

CONSTANTS
    Users,      \* accounts allowed to chat
    Sessions,   \* ids of chat sessions, used or not
    Requests,   \* one HTTP request each, made at most once
    Clock,      \* the readings a wall clock can give, in microseconds
    None,       \* SQL NULL
    Given       \* a title supplied when the session is created

ASSUME ClockAssumption == Clock \subseteq Nat
ASSUME TitleAssumption == None # Given /\ None \notin Requests \cup Users /\ Given \notin Requests

VARIABLES
    chat_sessions,  \* table chat_sessions, by id
    messages,       \* table messages
    request,        \* what each request asks for; never changes
    pc,             \* how far each request has come
    handle,         \* what a request has read: its ChatSession object, history and stamp
    before          \* history variable: requests that had ended when this one began

vars == <<chat_sessions, messages, request, pc, handle, before>>

-----------------------------------------------------------------------------
(* Types *)

Ops == {"get", "send", "stream", "delete"}
InFlight == {"begun", "owned", "stamped", "streaming", "completing"}
Ended == {"replied", "partial", "not_found", "invalid", "error", "aborted",
          "disconnected", "died"}
Roles == {"user", "assistant"}
Titles == {None, Given} \cup Requests

SessionRow == [status : {"unused", "live", "deleted"}, user_id : Users \cup {None},
               title : Titles, updated_at : Nat]
MessageRow == [req : Requests, role : Roles, session : Sessions, created_at : Nat]
Handle == [title : Titles, updated_at : Nat, prompt : SUBSET MessageRow, base : Nat]
NoHandle == [title |-> None, updated_at |-> 0, prompt |-> {}, base |-> 0]

TypeOK ==
    /\ chat_sessions \in [Sessions -> SessionRow]
    /\ messages \subseteq MessageRow
    /\ request \in [Requests -> [op : Ops, actor : Users, session : Sessions]]
    /\ pc \in [Requests -> {"idle"} \cup InFlight \cup Ended]
    /\ handle \in [Requests -> Handle]
    /\ before \in [Requests -> SUBSET Requests]

-----------------------------------------------------------------------------
(* What a request reads and writes *)

Live(s) == chat_sessions[s].status = "live"
list_messages(s) == {m \in messages : m.session = s}

\* Mutant: only the existence of the session is looked at.
OwnedByAnyone(r) == Live(request[r].session)

\* ChatService._owned_session: the row exists and belongs to the actor.
Owned(r) == LET s == request[r].session
            IN  Live(s) /\ chat_sessions[s].user_id = request[r].actor

Later(a, b) == IF a >= b THEN a ELSE b

\* history[-1]: a row no other row sorts after.
LastOf(history) == {m \in history : \A other \in history : other.created_at <= m.created_at}

\* Mutant: the clock is trusted.
BaseTrustingClock(now, history) == {now}

\* The stamp of a user turn: the clock, pushed past the last turn in the history.
Base(now, history) ==
    IF history = {} THEN {now}
    ELSE {Later(now, last.created_at + 1) : last \in LastOf(history)}

UserRow(r) == [req |-> r, role |-> "user", session |-> request[r].session,
               created_at |-> handle[r].base]
\* Mutant: the reply's stamp is left to the server default and reads back as None.
ReplyRowUnstamped(r) == [UserRow(r) EXCEPT !.role = "assistant", !.created_at = None]

ReplyRow(r) == [req |-> r, role |-> "assistant", session |-> request[r].session,
                created_at |-> handle[r].base + 1]

\* Mutant: every first turn a request makes names the session.
TitleAlways(r) == r

\* The first turn names the session, if the loaded copy had no title.
TitleAfter(r) == IF handle[r].title = None THEN r
                 ELSE chat_sessions[request[r].session].title

\* The UPDATE that commits a user turn writes only attributes that differ from the
\* loaded copy, and `onupdate=now()` fills updated_at when only the title did: with
\* what the database's clock reads, be it before the time the session has.
BumpedTo(r) ==
    IF handle[r].base # handle[r].updated_at THEN {handle[r].base}
    ELSE IF handle[r].title = None THEN Clock
    ELSE {chat_sessions[request[r].session].updated_at}

\* Mutant: a foreign key without its lock.
NoKeyShare(s) == {}

\* Mutant: a send whose provider failed is answered and not rolled back.
KeyShareKept(s) ==
    {r \in Requests : pc[r] \in {"completing", "error"} /\ request[r].session = s}

\* Requests whose uncommitted INSERT holds FOR KEY SHARE on the session's row.
KeyShareHolders(s) == {r \in Requests : pc[r] = "completing" /\ request[r].session = s}

-----------------------------------------------------------------------------
Init ==
    /\ chat_sessions = [s \in Sessions |-> [status |-> "unused", user_id |-> None,
                                            title |-> None, updated_at |-> 0]]
    /\ messages = {}
    /\ request \in [Requests -> [op : Ops, actor : Users, session : Sessions]]
    /\ pc = [r \in Requests |-> "idle"]
    /\ handle = [r \in Requests |-> NoHandle]
    /\ before = [r \in Requests |-> {}]

Goto(r, l) == pc' = [pc EXCEPT ![r] = l]

\* POST /chat/sessions: one INSERT, committed.
CreateSession(u, s, title) ==
    /\ chat_sessions[s].status = "unused"
    /\ \E now \in Clock :
          chat_sessions' = [chat_sessions EXCEPT
              ![s] = [status |-> "live", user_id |-> u, title |-> title, updated_at |-> now]]
    /\ UNCHANGED <<messages, request, pc, handle, before>>

\* A request arrives with a valid token; its transaction begins.
Begin(r) ==
    /\ pc[r] = "idle"
    /\ Goto(r, "begun")
    /\ before' = [before EXCEPT ![r] = {q \in Requests : pc[q] \in Ended}]
    /\ UNCHANGED <<chat_sessions, messages, request, handle>>

\* Empty or oversized content: refused before the session is looked up.
RejectContent(r) ==
    /\ pc[r] = "begun"
    /\ request[r].op \in {"send", "stream"}
    /\ Goto(r, "invalid")
    /\ UNCHANGED <<chat_sessions, messages, request, handle, before>>

\* SELECT the session; a missing or a foreign one is a 404.
LoadSession(r) ==
    /\ pc[r] = "begun"
    /\ \/ /\ Owned(r)
          /\ LET row == chat_sessions[request[r].session]
             IN  handle' = [handle EXCEPT ![r].title = row.title,
                                          ![r].updated_at = row.updated_at]
          /\ Goto(r, "owned")
       \/ /\ ~Owned(r)
          /\ Goto(r, "not_found")
          /\ UNCHANGED handle
    /\ UNCHANGED <<chat_sessions, messages, request, before>>

\* Mutant: only the last turn is put into the prompt.
LoadLastTurn(r) ==
    /\ pc[r] = "owned"
    /\ request[r].op \in {"send", "stream"}
    /\ LET history == list_messages(request[r].session)
       IN  \E now \in Clock : \E base \in Base(now, history) :
              handle' = [handle EXCEPT ![r].prompt = LastOf(history), ![r].base = base]
    /\ Goto(r, "stamped")
    /\ UNCHANGED <<chat_sessions, messages, request, before>>

\* SELECT the history and stamp the user turn strictly after it.
LoadHistory(r) ==
    /\ pc[r] = "owned"
    /\ request[r].op \in {"send", "stream"}
    /\ LET history == list_messages(request[r].session)
       IN  \E now \in Clock : \E base \in Base(now, history) :
              handle' = [handle EXCEPT ![r].prompt = history, ![r].base = base]
    /\ Goto(r, "stamped")
    /\ UNCHANGED <<chat_sessions, messages, request, before>>

\* GET /chat/sessions/{id}: the second SELECT, and the response.
ReturnHistory(r) ==
    /\ pc[r] = "owned"
    /\ request[r].op = "get"
    /\ handle' = [handle EXCEPT ![r].prompt = list_messages(request[r].session)]
    /\ Goto(r, "replied")
    /\ UNCHANGED <<chat_sessions, messages, request, before>>

\* The streaming endpoint commits the user turn before the response opens.  The
\* INSERT fails on its foreign key if the session is gone by now.
CommitUserTurn(r) ==
    /\ pc[r] = "stamped"
    /\ request[r].op = "stream"
    /\ LET s == request[r].session
       IN  \/ /\ Live(s)
              /\ messages' = messages \cup {UserRow(r)}
              /\ \E at \in BumpedTo(r) :
                    chat_sessions' = [chat_sessions EXCEPT ![s].title = TitleAfter(r),
                                                           ![s].updated_at = at]
              /\ Goto(r, "streaming")
           \/ /\ ~Live(s)
              /\ Goto(r, "error")
              /\ UNCHANGED <<chat_sessions, messages>>
    /\ UNCHANGED <<request, handle, before>>

\* Mutant: the non-streaming endpoint commits the user turn first, too.
CommitThenComplete(r) ==
    /\ pc[r] = "stamped"
    /\ request[r].op = "send"
    /\ Live(request[r].session)
    /\ messages' = messages \cup {UserRow(r)}
    /\ Goto(r, "completing")
    /\ UNCHANGED <<chat_sessions, request, handle, before>>

\* The non-streaming endpoint only flushes it: the row stays invisible, and its
\* foreign key locks the session row, while the provider is asked for the reply.
FlushUserTurn(r) ==
    /\ pc[r] = "stamped"
    /\ request[r].op = "send"
    /\ \/ Live(request[r].session) /\ Goto(r, "completing")
       \/ ~Live(request[r].session) /\ Goto(r, "error")
    /\ UNCHANGED <<chat_sessions, messages, request, handle, before>>

\* Mutant: the reply does not bump the session.
PersistReplyOnly(r, outcome) ==
    /\ pc[r] = "streaming"
    /\ Live(request[r].session)
    /\ messages' = messages \cup {ReplyRow(r)}
    /\ Goto(r, outcome)
    /\ UNCHANGED <<chat_sessions, request, handle, before>>

\* Mutant: the end of the stream is reported but nothing is persisted.
EndWithoutReply(r, outcome) ==
    /\ pc[r] = "streaming"
    /\ Goto(r, outcome)
    /\ UNCHANGED <<chat_sessions, messages, request, handle, before>>

\* stream_reply's end, normal or not: insert the reply, bump the session, commit.
\* If the session is gone the INSERT raises and the stream has no last frame.
PersistReply(r, outcome) ==
    /\ pc[r] = "streaming"
    /\ LET s == request[r].session
       IN  \/ /\ Live(s)
              /\ messages' = messages \cup {ReplyRow(r)}
              /\ chat_sessions' = [chat_sessions EXCEPT ![s].updated_at = handle[r].base + 1]
              /\ Goto(r, outcome)
           \/ /\ ~Live(s)
              /\ Goto(r, "aborted")
              /\ UNCHANGED <<chat_sessions, messages>>
    /\ UNCHANGED <<request, handle, before>>

FinishStream(r) == PersistReply(r, "replied")

\* Mutant: a failed stream drops the partial reply.
FailStreamWithoutReply(r) ==
    /\ pc[r] = "streaming"
    /\ Goto(r, "partial")
    /\ UNCHANGED <<chat_sessions, messages, request, handle, before>>

\* Mutant: a failed stream takes its user turn back.
FailStreamUndone(r) ==
    /\ pc[r] = "streaming"
    /\ messages' = messages \ {UserRow(r)}
    /\ Goto(r, "partial")
    /\ UNCHANGED <<chat_sessions, request, handle, before>>

\* The provider raised: the partial reply is persisted all the same.
FailStream(r) == PersistReply(r, "partial")

\* The client goes away: GeneratorExit at a yield, which no handler catches.
Disconnect(r) ==
    /\ pc[r] = "streaming"
    /\ Goto(r, "disconnected")
    /\ UNCHANGED <<chat_sessions, messages, request, handle, before>>

\* The reply is here: both turns and the session's new state in one commit.
CompleteSend(r) ==
    /\ pc[r] = "completing"
    /\ messages' = messages \cup {UserRow(r), ReplyRow(r)}
    /\ chat_sessions' = [chat_sessions EXCEPT
           ![request[r].session].title = TitleAfter(r),
           ![request[r].session].updated_at = handle[r].base + 1]
    /\ Goto(r, "replied")
    /\ UNCHANGED <<request, handle, before>>

\* The provider failed: the transaction is rolled back and the request is a 502.
FailSend(r) ==
    /\ pc[r] = "completing"
    /\ Goto(r, "error")
    /\ UNCHANGED <<chat_sessions, messages, request, handle, before>>

\* Mutant: the messages of a deleted session are left behind.
DeleteWithoutCascade(r) ==
    /\ pc[r] = "owned"
    /\ request[r].op = "delete"
    /\ KeyShareHolders(request[r].session) = {}
    /\ chat_sessions' = [chat_sessions EXCEPT ![request[r].session].status = "deleted"]
    /\ Goto(r, "replied")
    /\ UNCHANGED <<messages, request, handle, before>>

\* DELETE the loaded session with its messages, once no INSERT locks its row.  A
\* session another request has deleted meanwhile is deleted again in vain.
Delete(r) ==
    /\ pc[r] = "owned"
    /\ request[r].op = "delete"
    /\ LET s == request[r].session
       IN  /\ KeyShareHolders(s) = {}
           /\ chat_sessions' = [chat_sessions EXCEPT ![s].status = "deleted"]
           /\ messages' = messages \ list_messages(s)
    /\ Goto(r, "replied")
    /\ UNCHANGED <<request, handle, before>>

\* The worker process dies, or a statement or a commit of the request fails with the
\* connection or for want of one; PostgreSQL rolls back what was not committed.
Die(r) ==
    /\ pc[r] \in InFlight
    /\ Goto(r, "died")
    /\ UNCHANGED <<chat_sessions, messages, request, handle, before>>

\* Nothing is left to do.
Quiescent ==
    /\ \A r \in Requests : pc[r] \in Ended
    /\ UNCHANGED vars

\* Steps the server takes on its own once a request is there.
Serve(r) ==
    \/ RejectContent(r)
    \/ LoadSession(r)
    \/ LoadHistory(r)
    \/ ReturnHistory(r)
    \/ CommitUserTurn(r)
    \/ FlushUserTurn(r)
    \/ FinishStream(r)
    \/ FailStream(r)
    \/ CompleteSend(r)
    \/ FailSend(r)
    \/ Delete(r)

Next ==
    \/ \E u \in Users, s \in Sessions, title \in {None, Given} : CreateSession(u, s, title)
    \/ \E r \in Requests : Begin(r) \/ Serve(r) \/ Disconnect(r) \/ Die(r)
    \/ Quiescent

Spec == Init /\ [][Next]_vars

\* The server keeps serving: greenlets are scheduled and the provider's call
\* returns or raises.  Clients owe nothing and workers need not die.
FairSpec == Spec /\ \A r \in Requests : WF_vars(Serve(r))

-----------------------------------------------------------------------------
(* Safety *)

Overlap(q, r) == q # r /\ q \notin before[r] /\ r \notin before[q]

\* A turn of a request that began after another request had ended sorts strictly
\* after everything the other one left in the session, whatever the clock reads:
\* what stamping past the last turn is for (open_stream), as far as it goes.
RealTimeOrder ==
    \A m1, m2 \in messages :
        m1.session = m2.session /\ m1.req \in before[m2.req] => m1.created_at < m2.created_at

\* No reader, now or in any prompt already taken, has a reply without its user
\* turn; and the two turns of a non-streaming send appear together or not at all
\* (send_message commits once, after the provider answered).
TurnsAreWhole ==
    \A rows \in {messages} \cup {handle[q].prompt : q \in Requests} : \A r \in Requests :
        /\ ReplyRow(r) \in rows => UserRow(r) \in rows
        /\ request[r].op = "send" /\ UserRow(r) \in rows => ReplyRow(r) \in rows

\* A user turn that is still there without a reply when its request is over was
\* abandoned by its client, its worker or its connection; every other ending persisted a reply
\* (stream_reply's except clause, send_message's single commit).
DanglingOnlyIfAbandoned ==
    \A r \in Requests :
        pc[r] \in Ended /\ UserRow(r) \in messages /\ ReplyRow(r) \notin messages
            => pc[r] \in {"disconnected", "died"}

\* No message outlives its session or is inserted after its deletion, and a send
\* waiting for the provider never finds its session gone (the foreign key's lock).
NoOrphans ==
    /\ \A m \in messages : Live(m.session)
    /\ \A r \in Requests : pc[r] = "completing" => Live(request[r].session)

\* A turn is only ever written into a session of its author, and no prompt or
\* history holds a turn of somebody else: _owned_session runs first and the row
\* it checked is read once, long before the writes.
OwnerOnly ==
    /\ \A m \in messages : chat_sessions[m.session].user_id = request[m.req].actor
    /\ \A r \in Requests : \A m \in handle[r].prompt :
          m.session = request[r].session /\ request[m.req].actor = request[r].actor

\* The provider is shown the whole past: a turn stored by a request that had
\* ended before this one began is in this one's prompt, and before its own stamp.
PromptCoversThePast ==
    \A r \in Requests : request[r].op \in {"send", "stream"} =>
        /\ \A m \in handle[r].prompt : m.created_at < handle[r].base
        /\ pc[r] \in {"streaming", "completing"} \/ UserRow(r) \in messages =>
              \A m \in messages :
                  m.session = request[r].session /\ m.req \in before[r] => m \in handle[r].prompt

\* A user turn that named its session at the very time its copy of the session had:
\* the session's time was left to the database's clock.
TimedByDatabase(m) ==
    /\ m = UserRow(m.req)
    /\ handle[m.req].title = None /\ handle[m.req].updated_at = m.created_at

\* The list of sessions sorts by updated_at.  It lags behind a turn only if that
\* turn overlapped another one, and only until a turn that follows both is stored;
\* or if the database's clock stood for the turn's (onupdate=now()), and only until
\* its reply, or a turn that follows it, is stored.
ListLagsOnlyUnderOverlap ==
    \A m \in messages :
        \/ m.created_at <= chat_sessions[m.session].updated_at
        \/ \E w \in list_messages(m.session) :
              /\ Overlap(w.req, m.req)
              /\ \A x \in list_messages(m.session) : ~({w.req, m.req} \subseteq before[x.req])
        \/ /\ TimedByDatabase(m) /\ ReplyRow(m.req) \notin messages
           /\ \A x \in list_messages(m.session) : m.req \notin before[x.req]

(* Action properties *)

\* A title is set once; two requests that both loaded the session untitled are
\* the only ones that can replace each other's, and a given title never changes.
TitleOverwrittenOnlyByOverlap ==
    [][\A s \in Sessions : Live(s) /\ chat_sessions'[s].title # chat_sessions[s].title =>
          \/ chat_sessions[s].title = None
          \/ chat_sessions[s].title \in Requests /\ chat_sessions'[s].title \in Requests
             /\ Overlap(chat_sessions[s].title, chat_sessions'[s].title)]_vars

\* History is append-only: a committed turn goes only with its whole session, and
\* a deleted session never takes another turn.
HistoryIsAppendOnly ==
    [][/\ \A m \in messages \ messages' : chat_sessions'[m.session].status = "deleted"
       /\ \A m \in messages' \ messages : Live(m.session) /\ Live(m.session)']_vars

(* Liveness, under FairSpec *)

\* Every request is answered, aborted or abandoned: nobody waits for ever, not
\* even a DELETE behind sends that wait for the provider.
EveryRequestEnds == \A r \in Requests : pc[r] = "begun" ~> pc[r] \in Ended

\* A user turn that has been committed gets its reply, unless its session is
\* deleted or its client, worker or connection goes away.
TurnEventuallyAnswered ==
    \A r \in Requests : UserRow(r) \in messages ~>
        \/ ReplyRow(r) \in messages
        \/ UserRow(r) \notin messages
        \/ pc[r] \in {"disconnected", "died"}

(* What the documents say, and the code does not keep *)

\* README: every turn is stamped strictly after the one before it in the session.
StrictOrder ==
    \A m1, m2 \in messages : m1 # m2 /\ m1.session = m2.session => m1.created_at # m2.created_at

\* stream_reply: a dropped stream never leaves a user turn without a reply.
NoDanglingTurn ==
    \A r \in Requests : pc[r] \in Ended /\ UserRow(r) \in messages => ReplyRow(r) \in messages
==============================================================================
