------------------------- MODULE ConversationProofs -------------------------
(***************************************************************************)
(* Every step of the chat service is a step of the conversation, or none.  *)
(***************************************************************************)
EXTENDS ConversationOfTurns, ChatTurnsProofs

-----------------------------------------------------------------------------
(* From steps on the tables to steps of the conversation. *)

\* A request that neither enters nor leaves its stream, and whose rows stay as they
\* are, keeps its turn's stage, even while it reads and stamps.
LEMMA StageKept ==
    ASSUME IInv, IInv', [Next]_vars, NEW r \in Requests,
           \A m : m.req = r => (m \in messages <=> m \in messages'),
           pc[r] = "streaming" <=> pc'[r] = "streaming"
    PROVE  StageOf(r)' = StageOf(r)
<1>0. TypeOK /\ RowsHaveWriters /\ RowsHaveWriters'
    BY DEF IInv
<1>1. UserRow(r).req = r /\ ReplyRow(r).req = r /\ UserRow(r)'.req = r /\ ReplyRow(r)'.req = r
    BY DEF UserRow, ReplyRow
<1>2. request' = request
    BY <1>0, StepFrame
<1>3. CASE pc[r] = "owned"
    <2>1. pc'[r] # "streaming"
        BY <1>3
    <2>2. UserRow(r) \notin messages
        BY <1>0, <1>1, <1>3 DEF RowsHaveWriters, Ended
    <2>3. UserRow(r)' \notin messages'
        BY <1>0, <1>1, <1>3 DEF RowsHaveWriters, Ended
    <2> QED
        BY <2>2, <2>3 DEF StageOf
<1>4. CASE pc[r] # "owned"
    <2>1. UserRow(r)' = UserRow(r) /\ ReplyRow(r)' = ReplyRow(r)
        BY <1>0, <1>2, <1>4, StepFrame DEF UserRow, ReplyRow
    <2> QED
        BY <1>1, <2>1 DEF StageOf
<1> QED
    BY <1>3, <1>4

\* What the sessions are, and whose, is untouched by a step that writes turns.
LEMMA SessionsKept ==
    ASSUME TypeOK, [Next]_vars,
           \A s \in Sessions : /\ chat_sessions'[s].status = chat_sessions[s].status
                               /\ chat_sessions'[s].user_id = chat_sessions[s].user_id
    PROVE  Statuses' = Statuses /\ Owners' = Owners
BY DEF Statuses, Owners

LEMMA AsksKept == ASSUME TypeOK, [Next]_vars PROVE Asks' = Asks
<1>1. CASE Requests = {}
    BY <1>1 DEF Asks
<1>2. CASE Requests # {}
    BY <1>2, StepFrame DEF Asks
<1> QED
    BY <1>1, <1>2

\* A request that has passed the ownership check of a session that is there is at home.
LEMMA AtHomeHere ==
    ASSUME IInv, NEW r \in Requests, pc[r] \in {"owned"} \cup AtTurn, Live(request[r].session)
    PROVE  Promised!AtHome(r)
<1>1. request[r].session \in Sessions /\ Asks[r].session = request[r].session
      /\ Asks[r].actor = request[r].actor
    BY DEF IInv, TypeOK, Asks
<1>2. chat_sessions[request[r].session].user_id = request[r].actor
    BY DEF IInv, OwnerStays
<1> QED
    BY <1>1, <1>2 DEF Promised!AtHome, Statuses, Owners, Live

\* One request's turn changes its stage, in a session that is there.
LEMMA TurnMoves ==
    ASSUME IInv, [Next]_vars, NEW r \in Requests, NEW from, NEW to,
           pc[r] \in {"owned"} \cup AtTurn, Live(request[r].session),
           StageOf(r) = from, StageOf(r)' = to,
           \A q \in Requests \ {r} : StageOf(q)' = StageOf(q),
           \A s \in Sessions : /\ chat_sessions'[s].status = chat_sessions[s].status
                               /\ chat_sessions'[s].user_id = chat_sessions[s].user_id
    PROVE  Promised!Becomes(r, from, to)
<1>1. Promised!AtHome(r)
    BY AtHomeHere
<1>2. Statuses' = Statuses /\ Owners' = Owners /\ Asks' = Asks
    BY SessionsKept, AsksKept DEF IInv
<1>3. Stages[r] = from
    BY DEF Stages
<1>4. Stages' = [Stages EXCEPT ![r] = to]
    BY DEF Stages
<1> QED
    BY <1>1, <1>2, <1>3, <1>4 DEF Promised!Becomes

\* A step that touches neither the sessions nor any turn's stage is none.
LEMMA NothingMoves ==
    ASSUME TypeOK, [Next]_vars,
           \A q \in Requests : StageOf(q)' = StageOf(q),
           \A s \in Sessions : /\ chat_sessions'[s].status = chat_sessions[s].status
                               /\ chat_sessions'[s].user_id = chat_sessions[s].user_id
    PROVE  UNCHANGED Promised!vars
<1>1. Statuses' = Statuses /\ Owners' = Owners /\ Asks' = Asks
    BY SessionsKept, AsksKept
<1>2. Stages' = Stages
    BY DEF Stages
<1> QED
    BY <1>1, <1>2 DEF Promised!vars

\* What a request past its stamp calls its rows does not change, and before its
\* commit there are none of them; a session that is gone has none.
LEMMA RowsOf ==
    ASSUME IInv, [Next]_vars, NEW r \in Requests, pc[r] \in AtTurn
    PROVE  /\ UserRow(r)' = UserRow(r) /\ ReplyRow(r)' = ReplyRow(r)
           /\ UserRow(r) # ReplyRow(r) /\ UserRow(r).req = r /\ ReplyRow(r).req = r
           /\ pc[r] # "streaming" => UserRow(r) \notin messages /\ ReplyRow(r) \notin messages
           /\ ~Live(request[r].session) => UserRow(r) \notin messages
<1>1. UserRow(r)' = UserRow(r) /\ ReplyRow(r)' = ReplyRow(r)
    BY StepFrame DEF IInv, UserRow, ReplyRow, AtTurn
<1>2. UserRow(r) # ReplyRow(r) /\ UserRow(r).req = r /\ ReplyRow(r).req = r
      /\ UserRow(r).session = request[r].session
    BY DEF UserRow, ReplyRow
<1>3. pc[r] # "streaming" => UserRow(r) \notin messages /\ ReplyRow(r) \notin messages
    BY <1>2 DEF IInv, RowsHaveWriters, AtTurn, Ended
<1>4. ~Live(request[r].session) => UserRow(r) \notin messages
    BY <1>2 DEF IInv, NoOrphans
<1> QED
    BY <1>1, <1>2, <1>3, <1>4

\* A step of one request leaves everybody else's turns alone.
LEMMA OthersKept ==
    ASSUME IInv, IInv', [Next]_vars, NEW r \in Requests, NEW l, pc' = [pc EXCEPT ![r] = l],
           \A m : m.req # r => (m \in messages <=> m \in messages'),
           NEW q \in Requests \ {r}
    PROVE  StageOf(q)' = StageOf(q)
<1>1. pc[q] = "streaming" <=> pc'[q] = "streaming"
    BY DEF IInv, TypeOK
<1>2. \A m : m.req = q => (m \in messages <=> m \in messages')
    OBVIOUS
<1> QED
    BY <1>1, <1>2, StageKept

LEMMA SayRefines ==
    ASSUME IInv, IInv', UnderWay, [Next]_vars, NEW r \in Requests, CommitUserTurn(r)
    PROVE  Promised!Say(r) \/ UNCHANGED Promised!vars
<1>0. pc[r] = "stamped" /\ pc[r] \in AtTurn /\ pc \in [Requests -> {"idle"} \cup InFlight \cup Ended]
    BY DEF CommitUserTurn, AtTurn, IInv, TypeOK
<1>1. CASE Live(request[r].session)
    <2>1. messages' = messages \cup {UserRow(r)} /\ pc' = [pc EXCEPT ![r] = "streaming"]
        BY <1>1 DEF CommitUserTurn, Goto
    <2>2. StageOf(r) = "absent" /\ StageOf(r)' = "waiting"
        BY <1>0, <2>1, RowsOf DEF StageOf
    <2>3. \A q \in Requests \ {r} : StageOf(q)' = StageOf(q)
        BY <2>1, <1>0, RowsOf, OthersKept
    <2>4. \A s \in Sessions : /\ chat_sessions'[s].status = chat_sessions[s].status
                              /\ chat_sessions'[s].user_id = chat_sessions[s].user_id
        BY TurnUpdateKeeps DEF IInv
    <2> QED
        BY <1>0, <1>1, <2>2, <2>3, <2>4, TurnMoves DEF Promised!Say
<1>2. CASE ~Live(request[r].session)
    <2>1. UNCHANGED <<chat_sessions, messages>> /\ pc' = [pc EXCEPT ![r] = "error"]
        BY <1>2 DEF CommitUserTurn, Goto
    <2>2. \A q \in Requests : StageOf(q)' = StageOf(q)
        BY <1>0, <2>1, StageKept
    <2> QED
        BY <2>1, <2>2, NothingMoves DEF IInv
<1> QED
    BY <1>1, <1>2

LEMMA AnswerRefines ==
    ASSUME IInv, IInv', UnderWay, [Next]_vars, NEW r \in Requests, NEW l,
           l \in {"replied", "partial"}, PersistReply(r, l)
    PROVE  Promised!Answer(r) \/ UNCHANGED Promised!vars
<1>0. pc[r] = "streaming" /\ pc[r] \in AtTurn /\ pc \in [Requests -> {"idle"} \cup InFlight \cup Ended]
    BY DEF PersistReply, AtTurn, IInv, TypeOK
<1>1. CASE Live(request[r].session)
    <2>1. /\ messages' = messages \cup {ReplyRow(r)} /\ pc' = [pc EXCEPT ![r] = l]
          /\ chat_sessions' = [chat_sessions EXCEPT ![request[r].session].updated_at = handle[r].base + 1]
        BY <1>1 DEF PersistReply, Goto
    <2>2. StageOf(r) = "waiting" /\ StageOf(r)' = "answered"
        BY <1>0, <1>1, <2>1, RowsOf DEF StageOf, UnderWay
    <2>3. \A q \in Requests \ {r} : StageOf(q)' = StageOf(q)
        BY <2>1, <1>0, RowsOf, OthersKept
    <2>4. \A s \in Sessions : /\ chat_sessions'[s].status = chat_sessions[s].status
                              /\ chat_sessions'[s].user_id = chat_sessions[s].user_id
        BY <2>1 DEF IInv, TypeOK, SessionRow
    <2> QED
        BY <1>0, <1>1, <2>2, <2>3, <2>4, TurnMoves DEF Promised!Answer
<1>2. CASE ~Live(request[r].session)
    <2>1. UNCHANGED <<chat_sessions, messages>> /\ pc' = [pc EXCEPT ![r] = "aborted"]
        BY <1>2 DEF PersistReply, Goto
    <2>2. StageOf(r) = "absent" /\ StageOf(r)' = "absent"
        BY <1>0, <1>2, <2>1, RowsOf DEF StageOf
    <2>3. \A q \in Requests \ {r} : StageOf(q)' = StageOf(q)
        BY <2>1, OthersKept
    <2> QED
        BY <2>1, <2>2, <2>3, NothingMoves DEF IInv
<1> QED
    BY <1>1, <1>2

LEMMA ExchangeRefines ==
    ASSUME IInv, IInv', [Next]_vars, NEW r \in Requests, CompleteSend(r)
    PROVE  Promised!Exchange(r)
<1>1. /\ pc[r] = "completing" /\ pc[r] \in AtTurn /\ pc' = [pc EXCEPT ![r] = "replied"]
      /\ messages' = messages \cup {UserRow(r), ReplyRow(r)}
    BY DEF CompleteSend, AtTurn, Goto
<1>2. Live(request[r].session)
    BY <1>1 DEF IInv, NoOrphans
<1>3. StageOf(r) = "absent" /\ StageOf(r)' = "answered"
    BY <1>1, RowsOf DEF StageOf
<1>4. \A q \in Requests \ {r} : StageOf(q)' = StageOf(q)
    BY <1>1, RowsOf, OthersKept
<1>5. \A s \in Sessions : /\ chat_sessions'[s].status = chat_sessions[s].status
                          /\ chat_sessions'[s].user_id = chat_sessions[s].user_id
    BY TurnUpdateKeeps DEF IInv
<1> QED
    BY <1>1, <1>2, <1>3, <1>4, <1>5, TurnMoves DEF Promised!Exchange

LEMMA AbandonRefines ==
    ASSUME IInv, IInv', UnderWay, [Next]_vars, NEW r \in Requests, Disconnect(r) \/ Die(r)
    PROVE  Promised!Abandon(r) \/ UNCHANGED Promised!vars
<1>1. PICK l \in {"disconnected", "died"} : pc' = [pc EXCEPT ![r] = l]
    BY DEF Disconnect, Die, Goto
<1>2. UNCHANGED <<chat_sessions, messages>> /\ pc \in [Requests -> {"idle"} \cup InFlight \cup Ended]
    BY DEF Disconnect, Die, IInv, TypeOK
<1>3. \A q \in Requests \ {r} : StageOf(q)' = StageOf(q)
    BY <1>1, <1>2, OthersKept
<1>4. CASE pc[r] # "streaming"
    <2>1. StageOf(r)' = StageOf(r)
        BY <1>1, <1>2, <1>4, StageKept
    <2> QED
        BY <1>2, <1>3, <2>1, NothingMoves DEF IInv
<1>5. CASE pc[r] = "streaming" /\ ~Live(request[r].session)
    <2>1. StageOf(r)' = StageOf(r)
        BY <1>2, <1>5, RowsOf DEF StageOf, AtTurn
    <2> QED
        BY <1>2, <1>3, <2>1, NothingMoves DEF IInv
<1>6. CASE pc[r] = "streaming" /\ Live(request[r].session)
    <2>1. StageOf(r) = "waiting" /\ StageOf(r)' = "abandoned"
        BY <1>1, <1>2, <1>6, RowsOf DEF StageOf, UnderWay, AtTurn
    <2>2. pc[r] \in {"owned"} \cup AtTurn
        BY <1>6 DEF AtTurn
    <2> QED
        BY <1>2, <1>3, <1>6, <2>1, <2>2, TurnMoves DEF Promised!Abandon
<1> QED
    BY <1>4, <1>5, <1>6

\* A deletion forgets the turns of its session and no others; a second one, nothing.
LEMMA ForgetRefines ==
    ASSUME IInv, IInv', [Next]_vars, NEW r \in Requests, Delete(r)
    PROVE  Promised!Forget(r) \/ UNCHANGED Promised!vars
<1> DEFINE s == request[r].session
<1>1. /\ pc[r] = "owned" /\ pc' = [pc EXCEPT ![r] = "replied"] /\ request' = request
      /\ chat_sessions' = [chat_sessions EXCEPT ![s].status = "deleted"]
      /\ messages' = messages \ list_messages(s)
    BY DEF Delete, Goto
<1>2. s \in Sessions /\ chat_sessions \in [Sessions -> SessionRow]
      /\ pc \in [Requests -> {"idle"} \cup InFlight \cup Ended]
    BY DEF IInv, TypeOK
<1>3. \A q \in Requests : pc'[q] = "streaming" <=> pc[q] = "streaming"
    BY <1>1, <1>2
<1>4. ASSUME NEW q \in Requests, request[q].session # s
      PROVE  StageOf(q)' = StageOf(q)
    <2>1. \A m \in messages : m.req = q => m.session = request[q].session
        BY DEF IInv, RowsHaveWriters, UserRow, ReplyRow
    <2>2. \A m : m.req = q => (m \in messages <=> m \in messages')
        BY <1>1, <1>4, <2>1 DEF list_messages
    <2> QED
        BY <1>3, <2>2, StageKept
<1>5. CASE Live(s)
    <2>1. Promised!AtHome(r)
        BY <1>1, <1>5, AtHomeHere
    <2>2. Statuses' = [Statuses EXCEPT ![s] = "deleted"] /\ Owners' = Owners
        <3>1. \A t \in Sessions : /\ chat_sessions'[t].status = IF t = s THEN "deleted" ELSE chat_sessions[t].status
                                  /\ chat_sessions'[t].user_id = chat_sessions[t].user_id
            BY <1>1, <1>2 DEF SessionRow
        <3> QED
            BY <1>2, <3>1 DEF Statuses, Owners
    <2>3. Asks' = Asks /\ \A q \in Requests : Asks[q].session = request[q].session
        BY AsksKept DEF IInv, Asks
    <2>4. ASSUME NEW q \in Requests, request[q].session = s
          PROVE  StageOf(q)' = "absent"
        <3>1. UserRow(q)'.session = s
            BY <1>1, <2>4 DEF UserRow
        <3>2. UserRow(q)' \notin messages'
            BY <1>1, <3>1 DEF list_messages
        <3> QED
            BY <3>2 DEF StageOf
    <2>5. Stages' = [q \in Requests |-> IF Asks[q].session = Asks[r].session THEN "absent" ELSE Stages[q]]
        BY <1>4, <2>3, <2>4 DEF Stages
    <2> QED
        BY <2>1, <2>2, <2>3, <2>5 DEF Promised!Forget
<1>6. CASE ~Live(s)
    <2>1. messages' = messages
        BY <1>1, <1>6 DEF list_messages, IInv, NoOrphans
    <2>2. \A q \in Requests : StageOf(q)' = StageOf(q)
        BY <1>3, <2>1, StageKept
    <2>3. chat_sessions[s].status = "deleted"
        BY <1>1, <1>2, <1>6 DEF IInv, OwnerStays, SessionRow, Live
    <2>4. \A t \in Sessions : /\ chat_sessions'[t].status = chat_sessions[t].status
                              /\ chat_sessions'[t].user_id = chat_sessions[t].user_id
        BY <1>1, <1>2, <2>3 DEF SessionRow
    <2> QED
        BY <2>2, <2>4, NothingMoves DEF IInv
<1> QED
    BY <1>5, <1>6

LEMMA OpenRefines ==
    ASSUME IInv, IInv', [Next]_vars, NEW u \in Users, NEW s \in Sessions, NEW title \in {None, Given},
           CreateSession(u, s, title)
    PROVE  Promised!Open(s, u)
<1>1. PICK now \in Clock : chat_sessions' = [chat_sessions EXCEPT
          ![s] = [status |-> "live", user_id |-> u, title |-> title, updated_at |-> now]]
    BY DEF CreateSession
<1>2. /\ chat_sessions \in [Sessions -> SessionRow] /\ chat_sessions[s].status = "unused"
      /\ UNCHANGED <<messages, pc>>
    BY DEF CreateSession, IInv, TypeOK
<1>3. Statuses' = [Statuses EXCEPT ![s] = "live"] /\ Owners' = [Owners EXCEPT ![s] = u]
    BY <1>1, <1>2 DEF Statuses, Owners
<1>4. \A q \in Requests : StageOf(q)' = StageOf(q)
    BY <1>2, StageKept
<1>5. Asks' = Asks
    BY AsksKept DEF IInv
<1> QED
    BY <1>2, <1>3, <1>4, <1>5 DEF Promised!Open, Statuses, Stages

LEMMA StepRefines ==
    IInv /\ IInv' /\ UnderWay /\ [Next]_vars => [Promised!Next]_(Promised!vars)
<1> SUFFICES ASSUME IInv, IInv', UnderWay, [Next]_vars
             PROVE  Promised!Next \/ UNCHANGED Promised!vars
    OBVIOUS
<1>1. CASE \E u \in Users, s \in Sessions, title \in {None, Given} : CreateSession(u, s, title)
    BY <1>1, OpenRefines DEF Promised!Next
<1>2. CASE \E r \in Requests : CommitUserTurn(r)
    BY <1>2, SayRefines DEF Promised!Next
<1>3. CASE \E r \in Requests : FinishStream(r) \/ FailStream(r)
    BY <1>3, AnswerRefines DEF Promised!Next, FinishStream, FailStream
<1>4. CASE \E r \in Requests : CompleteSend(r)
    BY <1>4, ExchangeRefines DEF Promised!Next
<1>5. CASE \E r \in Requests : Delete(r)
    BY <1>5, ForgetRefines DEF Promised!Next
<1>6. CASE \E r \in Requests : Disconnect(r) \/ Die(r)
    BY <1>6, AbandonRefines DEF Promised!Next
<1>7. CASE \E r \in Requests : Begin(r) \/ RejectContent(r) \/ LoadSession(r) \/ LoadHistory(r)
                               \/ ReturnHistory(r) \/ FlushUserTurn(r) \/ FailSend(r)
    <2>1. PICK r \in Requests : Begin(r) \/ RejectContent(r) \/ LoadSession(r) \/ LoadHistory(r)
                                \/ ReturnHistory(r) \/ FlushUserTurn(r) \/ FailSend(r)
        BY <1>7
    <2>2. UNCHANGED <<chat_sessions, messages>>
        BY <2>1 DEF Begin, RejectContent, LoadSession, LoadHistory, ReturnHistory, FlushUserTurn, FailSend
    <2>3. \A q \in Requests : pc'[q] = "streaming" <=> pc[q] = "streaming"
        BY <2>1 DEF Begin, RejectContent, LoadSession, LoadHistory, ReturnHistory, FlushUserTurn,
                    FailSend, Goto, IInv, TypeOK
    <2> QED
        BY <2>2, <2>3, StageKept, NothingMoves DEF IInv
<1>8. CASE Quiescent \/ UNCHANGED vars
    <2>1. UNCHANGED <<chat_sessions, messages, pc>>
        BY <1>8 DEF Quiescent, vars
    <2> QED
        BY <2>1, StageKept, NothingMoves DEF IInv
<1> QED
    BY <1>1, <1>2, <1>3, <1>4, <1>5, <1>6, <1>7, <1>8 DEF Next, Serve

LEMMA InitRefines == Init => Promised!Init
<1> SUFFICES ASSUME Init PROVE Promised!Init
    OBVIOUS
<1>1. Statuses = [s \in Sessions |-> "unused"] /\ Owners = [s \in Sessions |-> None]
    BY DEF Init, Statuses, Owners
<1>2. Stages = [r \in Requests |-> "absent"]
    BY DEF Init, Stages, StageOf
<1>3. Asks \in [Requests -> [actor : Users, session : Sessions]]
    BY DEF Init, Asks
<1> QED
    BY <1>1, <1>2, <1>3 DEF Promised!Init

\* ChatService implements the conversation: whatever races, fails or is deleted under
\* way, the tables move as one that says, answers, gives up and exchanges single
\* turns and forgets whole sessions.
THEOREM ChatTurnsAreConversations == Spec => ImplementsConversation
<1>1. Init => UnderWay
    BY DEF Init, UnderWay
<1>2. IInv /\ UnderWay /\ [Next]_vars => UnderWay'
    BY UnderWayStep
<1> QED
    BY <1>1, <1>2, InitRefines, StepRefines, IInvHolds, PTL
       DEF Spec, ImplementsConversation, Promised!Spec
=============================================================================
