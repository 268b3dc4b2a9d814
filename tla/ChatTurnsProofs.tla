--------------------------- MODULE ChatTurnsProofs ---------------------------
(***************************************************************************)
(* Proofs about ChatTurns, for any numbers of users, sessions and requests *)
(* and any clock.                                                          *)
(***************************************************************************)
EXTENDS ChatTurns, TLAPS

-----------------------------------------------------------------------------
(* What the stamping rule gives. *)

\* open_stream's stamp is a timestamp, and sorts after every turn it was shown.
LEMMA BaseFollowsHistory ==
    ASSUME NEW history, history \subseteq MessageRow,
           NEW now \in Clock, NEW base \in Base(now, history)
    PROVE  /\ base \in Nat
           /\ \A m \in history : m.created_at < base
<1>1. now \in Nat
    BY ClockAssumption
<1>2. CASE history = {}
    BY <1>1, <1>2 DEF Base
<1>3. CASE history # {}
    <2>1. PICK last \in LastOf(history) : base = Later(now, last.created_at + 1)
        BY <1>3 DEF Base
    <2>2. last.created_at \in Nat /\ \A m \in history : m.created_at \in Nat /\ m.created_at <= last.created_at
        BY <2>1 DEF LastOf, MessageRow
    <2>3. base \in Nat /\ base >= last.created_at + 1
        BY <1>1, <2>1, <2>2 DEF Later
    <2> QED
        BY <2>2, <2>3
<1> QED
    BY <1>2, <1>3

\* The rows a request writes are rows of the table.
LEMMA RowTypes ==
    ASSUME TypeOK, NEW r \in Requests
    PROVE  /\ UserRow(r) \in MessageRow /\ ReplyRow(r) \in MessageRow
           /\ TitleAfter(r) \in Titles
           /\ BumpedTo(r) \subseteq Nat
           /\ list_messages(request[r].session) \subseteq MessageRow
<1>1. /\ request[r].session \in Sessions
      /\ handle[r].base \in Nat /\ handle[r].updated_at \in Nat
      /\ chat_sessions[request[r].session] \in SessionRow
    BY DEF TypeOK, Handle
<1>2. UserRow(r) \in MessageRow /\ ReplyRow(r) \in MessageRow
    BY <1>1 DEF UserRow, ReplyRow, MessageRow, Roles
<1>3. TitleAfter(r) \in Titles
    BY <1>1 DEF TitleAfter, Titles, SessionRow
<1>4. BumpedTo(r) \subseteq Nat
    BY <1>1, ClockAssumption DEF BumpedTo, SessionRow
<1>5. list_messages(request[r].session) \subseteq MessageRow
    BY DEF list_messages, TypeOK
<1> QED
    BY <1>2, <1>3, <1>4, <1>5

\* An UPDATE that writes title and updated_at keeps a session's row a row, and what a
\* request has read stays a handle.
LEMMA UpdateTypes ==
    ASSUME TypeOK, NEW s \in Sessions, NEW r \in Requests,
           NEW title \in Titles, NEW at \in Nat, NEW rows \in SUBSET MessageRow
    PROVE  /\ [chat_sessions EXCEPT ![s].title = title, ![s].updated_at = at]
                 \in [Sessions -> SessionRow]
           /\ [handle EXCEPT ![r].title = title, ![r].updated_at = at] \in [Requests -> Handle]
           /\ [handle EXCEPT ![r].prompt = rows, ![r].base = at] \in [Requests -> Handle]
           /\ [handle EXCEPT ![r].prompt = rows] \in [Requests -> Handle]
<1>1. chat_sessions \in [Sessions -> SessionRow] /\ chat_sessions[s] \in SessionRow
    BY DEF TypeOK
<1>2. handle \in [Requests -> Handle] /\ handle[r] \in Handle
    BY DEF TypeOK
<1>3. [chat_sessions[s] EXCEPT !.title = title, !.updated_at = at] \in SessionRow
    BY <1>1 DEF SessionRow
<1>4. [handle[r] EXCEPT !.title = title, !.updated_at = at] \in Handle
    BY <1>2 DEF Handle
<1>5. [handle[r] EXCEPT !.prompt = rows, !.base = at] \in Handle
    BY <1>2 DEF Handle
<1>6. [chat_sessions EXCEPT ![s].title = title, ![s].updated_at = at] \in [Sessions -> SessionRow]
    BY <1>1, <1>3
<1>7. [handle EXCEPT ![r].title = title, ![r].updated_at = at] \in [Requests -> Handle]
    BY <1>2, <1>4
<1>8. [handle EXCEPT ![r].prompt = rows, ![r].base = at] \in [Requests -> Handle]
    BY <1>2, <1>5
<1>9. [handle EXCEPT ![r].prompt = rows] \in [Requests -> Handle]
    BY <1>2 DEF Handle
<1> QED
    BY <1>6, <1>7, <1>8, <1>9

\* The UPDATE of _persist_assistant writes updated_at alone.
LEMMA BumpTypes ==
    ASSUME TypeOK, NEW s \in Sessions, NEW at \in Nat
    PROVE  [chat_sessions EXCEPT ![s].updated_at = at] \in [Sessions -> SessionRow]
BY DEF TypeOK, SessionRow

-----------------------------------------------------------------------------
(* Type correctness. *)

LEMMA TypeStep == TypeOK /\ [Next]_vars => TypeOK'
<1> SUFFICES ASSUME TypeOK, [Next]_vars PROVE TypeOK'
    OBVIOUS
<1> USE DEF TypeOK
<1>1. ASSUME NEW u \in Users, NEW s \in Sessions, NEW title \in {None, Given},
             CreateSession(u, s, title)
      PROVE  TypeOK'
    <2>1. PICK now \in Clock :
            chat_sessions' = [chat_sessions EXCEPT
              ![s] = [status |-> "live", user_id |-> u, title |-> title, updated_at |-> now]]
        BY <1>1 DEF CreateSession
    <2>2. [status |-> "live", user_id |-> u, title |-> title, updated_at |-> now] \in SessionRow
        BY ClockAssumption DEF SessionRow, Titles
    <2>3. chat_sessions' \in [Sessions -> SessionRow]
        BY <2>1, <2>2
    <2> QED
        BY <1>1, <2>3 DEF CreateSession
<1>2. ASSUME NEW r \in Requests, Begin(r) PROVE TypeOK'
    BY <1>2 DEF Begin, Goto, InFlight
<1>3. ASSUME NEW r \in Requests, Serve(r) PROVE TypeOK'
    <2>1. CASE RejectContent(r)
        BY <2>1 DEF RejectContent, Goto, Ended
    <2>2. CASE LoadSession(r)
        <3> DEFINE row == chat_sessions[request[r].session]
        <3>1. request[r].session \in Sessions /\ row.title \in Titles /\ row.updated_at \in Nat
            BY DEF SessionRow
        <3>2. handle' \in [Requests -> Handle]
            <4>1. CASE handle' = [handle EXCEPT ![r].title = row.title, ![r].updated_at = row.updated_at]
                <5> HIDE DEF row
                <5> QED
                    BY <4>1, <3>1, UpdateTypes
            <4>2. CASE UNCHANGED handle
                BY <4>2
            <4> QED
                BY <2>2, <4>1, <4>2 DEF LoadSession
        <3> QED
            BY <2>2, <3>2 DEF LoadSession, Goto, InFlight, Ended
    <2>3. CASE LoadHistory(r)
        <3>0. PICK now \in Clock : \E base \in Base(now, list_messages(request[r].session)) :
                handle' = [handle EXCEPT ![r].prompt = list_messages(request[r].session),
                                         ![r].base = base]
            BY <2>3 DEF LoadHistory
        <3>1. PICK base \in Base(now, list_messages(request[r].session)) :
                handle' = [handle EXCEPT ![r].prompt = list_messages(request[r].session),
                                         ![r].base = base]
            BY <3>0
        <3>2. base \in Nat
            BY RowTypes, BaseFollowsHistory
        <3>3. handle' \in [Requests -> Handle]
            BY <3>1, <3>2, RowTypes DEF Handle
        <3>4. pc' = [pc EXCEPT ![r] = "stamped"] /\ UNCHANGED <<chat_sessions, messages, request, before>>
            BY <2>3 DEF LoadHistory, Goto
        <3>5. pc' \in [Requests -> {"idle"} \cup InFlight \cup Ended]
            BY <3>4 DEF InFlight
        <3> QED
            BY <3>3, <3>4, <3>5
    <2>4. CASE ReturnHistory(r)
        <3>1. handle' \in [Requests -> Handle]
            BY <2>4, RowTypes DEF ReturnHistory, Handle
        <3> QED
            BY <2>4, <3>1 DEF ReturnHistory, Goto, Ended
    <2>5. CASE CommitUserTurn(r)
        <3>1. messages' \subseteq MessageRow
            BY <2>5, RowTypes DEF CommitUserTurn
        <3>2. chat_sessions' \in [Sessions -> SessionRow]
            <4>1. CASE Live(request[r].session)
                <5>1. PICK at \in BumpedTo(r) :
                        chat_sessions' = [chat_sessions EXCEPT
                            ![request[r].session].title = TitleAfter(r),
                            ![request[r].session].updated_at = at]
                    BY <2>5, <4>1 DEF CommitUserTurn
                <5>2. at \in Nat /\ TitleAfter(r) \in Titles /\ request[r].session \in Sessions
                    BY RowTypes
                <5> QED
                    BY <5>1, <5>2, UpdateTypes
            <4>2. CASE ~Live(request[r].session)
                BY <2>5, <4>2 DEF CommitUserTurn
            <4> QED
                BY <4>1, <4>2
        <3> QED
            BY <2>5, <3>1, <3>2 DEF CommitUserTurn, Goto, InFlight, Ended
    <2>6. CASE FlushUserTurn(r)
        BY <2>6 DEF FlushUserTurn, Goto, InFlight, Ended
    <2>7. ASSUME NEW outcome \in {"replied", "partial"}, PersistReply(r, outcome)
          PROVE  TypeOK'
        <3>1. messages' \subseteq MessageRow
            BY <2>7, RowTypes DEF PersistReply
        <3>2. chat_sessions' \in [Sessions -> SessionRow]
            <4>1. handle[r].base + 1 \in Nat /\ request[r].session \in Sessions
                BY DEF Handle
            <4>2. CASE Live(request[r].session)
                <5>1. chat_sessions' = [chat_sessions EXCEPT
                            ![request[r].session].updated_at = handle[r].base + 1]
                    BY <2>7, <4>2 DEF PersistReply
                <5> QED
                    BY <4>1, <5>1, BumpTypes
            <4>3. CASE ~Live(request[r].session)
                BY <2>7, <4>3 DEF PersistReply
            <4> QED
                BY <4>2, <4>3
        <3> QED
            BY <2>7, <3>1, <3>2 DEF PersistReply, Goto, Ended
    <2>8. CASE CompleteSend(r)
        <3>1. messages' \subseteq MessageRow
            BY <2>8, RowTypes DEF CompleteSend
        <3>2. chat_sessions' \in [Sessions -> SessionRow]
            <4>1. handle[r].base + 1 \in Nat /\ request[r].session \in Sessions
                BY DEF Handle
            <4> QED
                BY <2>8, <4>1, RowTypes, UpdateTypes DEF CompleteSend
        <3> QED
            BY <2>8, <3>1, <3>2 DEF CompleteSend, Goto, Ended
    <2>9. CASE FailSend(r)
        BY <2>9 DEF FailSend, Goto, Ended
    <2>10. CASE Delete(r)
        <3>1. chat_sessions' = [chat_sessions EXCEPT ![request[r].session].status = "deleted"]
              /\ messages' \subseteq messages
            BY <2>10 DEF Delete
        <3>2. chat_sessions' \in [Sessions -> SessionRow]
            BY <3>1 DEF SessionRow
        <3>3. pc' \in [Requests -> {"idle"} \cup InFlight \cup Ended]
            BY <2>10 DEF Delete, Goto, Ended
        <3> QED
            BY <2>10, <3>1, <3>2, <3>3 DEF Delete
    <2> QED
        BY <1>3, <2>1, <2>2, <2>3, <2>4, <2>5, <2>6, <2>7, <2>8, <2>9, <2>10
        DEF Serve, FinishStream, FailStream
<1>4. ASSUME NEW r \in Requests, Disconnect(r) \/ Die(r) PROVE TypeOK'
    BY <1>4 DEF Disconnect, Die, Goto, Ended
<1>5. CASE Quiescent \/ UNCHANGED vars
    BY <1>5 DEF Quiescent, vars
<1> QED
    BY <1>1, <1>2, <1>3, <1>4, <1>5 DEF Next

\* Every column, stamp and prompt keeps its type: a stamp is a natural number and
\* a prompt is made of stored turns, whatever the requests do.
THEOREM TypeCorrect == Spec => []TypeOK
<1>1. Init => TypeOK
    BY DEF Init, TypeOK, SessionRow, Handle, NoHandle, Titles
<1> QED
    BY <1>1, TypeStep, PTL DEF Spec

-----------------------------------------------------------------------------
(* What one step does, whichever action it is. *)

\* A request's question never changes; its ending, what it has read and what was
\* over when it began are settled once the stage that determines them is past.
LEMMA StepFrame ==
    ASSUME TypeOK, [Next]_vars, NEW r \in Requests
    PROVE  /\ request' = request
           /\ pc[r] \in Ended => pc'[r] = pc[r]
           /\ pc[r] # "idle" => before'[r] = before[r] /\ pc'[r] # "idle"
           /\ pc[r] \in {"stamped", "streaming", "completing"} =>
                 pc'[r] \in {"stamped", "streaming", "completing"} \cup Ended
           /\ pc[r] # "owned" => /\ handle'[r].base = handle[r].base
                                 /\ handle'[r].prompt = handle[r].prompt
<1>1. ASSUME NEW q \in Requests, RejectContent(q) \/ FlushUserTurn(q) \/ CommitUserTurn(q)
                 \/ CompleteSend(q) \/ FailSend(q) \/ Delete(q) \/ Disconnect(q) \/ Die(q)
                 \/ FinishStream(q) \/ FailStream(q)
      PROVE  /\ request' = request /\ handle' = handle /\ before' = before
             /\ pc[q] \in InFlight
             /\ \E l \in {"streaming", "completing"} \cup Ended : pc' = [pc EXCEPT ![q] = l]
    BY <1>1 DEF RejectContent, FlushUserTurn, CommitUserTurn, CompleteSend, FailSend, Delete,
                Disconnect, Die, FinishStream, FailStream, PersistReply, Goto, Ended, InFlight
<1>2. ASSUME NEW q \in Requests, LoadSession(q)
      PROVE  /\ request' = request /\ before' = before /\ pc[q] = "begun"
             /\ \E l \in {"owned", "not_found"} : pc' = [pc EXCEPT ![q] = l]
             /\ \A t \in Requests : handle'[t].base = handle[t].base
                                    /\ handle'[t].prompt = handle[t].prompt
    <2>1. request' = request /\ before' = before /\ pc[q] = "begun"
          /\ \E l \in {"owned", "not_found"} : pc' = [pc EXCEPT ![q] = l]
        BY <1>2 DEF LoadSession, Goto
    <2>2. handle \in [Requests -> Handle]
        BY DEF TypeOK
    <2>3. ASSUME NEW t \in Requests
          PROVE  handle'[t].base = handle[t].base /\ handle'[t].prompt = handle[t].prompt
        BY <1>2, <2>2 DEF LoadSession, Handle
    <2> QED
        BY <2>1, <2>3
<1>3. ASSUME NEW q \in Requests, LoadHistory(q) \/ ReturnHistory(q)
      PROVE  /\ request' = request /\ before' = before /\ pc[q] = "owned"
             /\ \E l \in {"stamped", "replied"} : pc' = [pc EXCEPT ![q] = l]
             /\ \A t \in Requests \ {q} : handle'[t] = handle[t]
    BY <1>3 DEF LoadHistory, ReturnHistory, Goto, TypeOK
<1>4. ASSUME NEW q \in Requests, Begin(q)
      PROVE  /\ request' = request /\ handle' = handle /\ pc[q] = "idle"
             /\ pc' = [pc EXCEPT ![q] = "begun"]
             /\ \A t \in Requests \ {q} : before'[t] = before[t]
    BY <1>4 DEF Begin, Goto, TypeOK
<1>5. ASSUME \/ \E u \in Users, s \in Sessions, title \in {None, Given} : CreateSession(u, s, title)
             \/ Quiescent \/ UNCHANGED vars
      PROVE  request' = request /\ handle' = handle /\ before' = before /\ pc' = pc
    BY <1>5 DEF CreateSession, Quiescent, vars
<1> USE DEF TypeOK, Ended, InFlight
<1>6. CASE \E q \in Requests : RejectContent(q) \/ FlushUserTurn(q) \/ CommitUserTurn(q)
                 \/ CompleteSend(q) \/ FailSend(q) \/ Delete(q) \/ Disconnect(q) \/ Die(q)
                 \/ FinishStream(q) \/ FailStream(q)
    BY <1>1, <1>6
<1>7. CASE \E q \in Requests : LoadSession(q)
    BY <1>2, <1>7
<1>8. CASE \E q \in Requests : LoadHistory(q) \/ ReturnHistory(q)
    BY <1>3, <1>8
<1>9. CASE \E q \in Requests : Begin(q)
    BY <1>4, <1>9
<1> QED
    BY <1>5, <1>6, <1>7, <1>8, <1>9 DEF Next, Serve

\* The UPDATE that goes with a user turn touches title and updated_at only.
LEMMA TurnUpdateKeeps ==
    ASSUME TypeOK, NEW r \in Requests, CommitUserTurn(r) \/ CompleteSend(r), NEW s \in Sessions
    PROVE  /\ chat_sessions'[s].status = chat_sessions[s].status
           /\ chat_sessions'[s].user_id = chat_sessions[s].user_id
<1>1. request[r].session \in Sessions /\ handle[r].base + 1 \in Nat
    BY DEF TypeOK, Handle
<1>2. CASE UNCHANGED chat_sessions
    BY <1>2
<1>3. CASE \E t \in Sessions, title \in Titles, at \in Nat :
             chat_sessions' = [chat_sessions EXCEPT ![t].title = title, ![t].updated_at = at]
    <2>1. PICK t \in Sessions, title \in Titles, at \in Nat :
             chat_sessions' = [chat_sessions EXCEPT ![t].title = title, ![t].updated_at = at]
        BY <1>3
    <2>2. chat_sessions \in [Sessions -> SessionRow]
        BY DEF TypeOK
    <2> QED
        BY <2>1, <2>2 DEF SessionRow
<1>4. CASE CompleteSend(r)
    BY <1>1, <1>3, <1>4, RowTypes, Zenon DEF CompleteSend
<1>5. CASE CommitUserTurn(r) /\ Live(request[r].session)
    <2>1. PICK at \in BumpedTo(r) :
             chat_sessions' = [chat_sessions EXCEPT ![request[r].session].title = TitleAfter(r),
                                                    ![request[r].session].updated_at = at]
        BY <1>5 DEF CommitUserTurn
    <2>2. at \in Nat /\ TitleAfter(r) \in Titles
        BY RowTypes
    <2> QED
        BY <1>1, <1>3, <2>1, <2>2, Zenon
<1> QED
    BY <1>2, <1>4, <1>5 DEF CommitUserTurn

\* A new row is a turn of a request that has been stamped, in a session that is
\* there, and no row goes in the same step.
LEMMA StepInsert ==
    ASSUME TypeOK, [Next]_vars, NEW m \in messages', m \notin messages
    PROVE  \E r \in Requests :
              /\ m \in {UserRow(r), ReplyRow(r)}
              /\ pc[r] \in {"stamped", "streaming", "completing"}
              /\ pc[r] = "completing" \/ Live(request[r].session)
              /\ pc'[r] \in {"streaming"} \cup Ended
              /\ \A s \in Sessions : chat_sessions'[s].status = chat_sessions[s].status
<1>1. ASSUME NEW r \in Requests,
             CommitUserTurn(r) \/ FinishStream(r) \/ FailStream(r) \/ CompleteSend(r)
      PROVE  /\ pc[r] \in {"stamped", "streaming", "completing"}
             /\ pc[r] = "completing" \/ Live(request[r].session)
             /\ pc'[r] \in {"streaming"} \cup Ended
             /\ m \in {UserRow(r), ReplyRow(r)}
             /\ \A s \in Sessions : chat_sessions'[s].status = chat_sessions[s].status
    <2>1. /\ pc[r] \in {"stamped", "streaming", "completing"}
          /\ pc[r] = "completing" \/ Live(request[r].session)
          /\ m \in {UserRow(r), ReplyRow(r)}
          /\ pc'[r] \in {"streaming"} \cup Ended
        BY <1>1 DEF CommitUserTurn, FinishStream, FailStream, PersistReply, CompleteSend,
                    Goto, Ended, TypeOK
    <2>2. chat_sessions \in [Sessions -> SessionRow]
        BY DEF TypeOK
    <2>3. ASSUME NEW s \in Sessions
          PROVE  chat_sessions'[s].status = chat_sessions[s].status
        <3>1. CASE CommitUserTurn(r)
            BY <3>1, TurnUpdateKeeps
        <3>2. CASE FinishStream(r) \/ FailStream(r)
            BY <2>2, <3>2 DEF FinishStream, FailStream, PersistReply, SessionRow
        <3>3. CASE CompleteSend(r)
            BY <3>3, TurnUpdateKeeps
        <3> QED
            BY <1>1, <3>1, <3>2, <3>3
    <2> QED
        BY <2>1, <2>3
<1>2. ASSUME NEW r \in Requests,
             Begin(r) \/ RejectContent(r) \/ LoadSession(r) \/ LoadHistory(r) \/ ReturnHistory(r)
             \/ FlushUserTurn(r) \/ FailSend(r) \/ Delete(r) \/ Disconnect(r) \/ Die(r)
      PROVE  FALSE
    BY <1>2 DEF Begin, RejectContent, LoadSession, LoadHistory, ReturnHistory, FlushUserTurn,
                FailSend, Delete, Disconnect, Die
<1>3. CASE \/ \E u \in Users, s \in Sessions, title \in {None, Given} : CreateSession(u, s, title)
           \/ Quiescent \/ UNCHANGED vars
    BY <1>3 DEF CreateSession, Quiescent, vars
<1> QED
    BY <1>1, <1>2, <1>3 DEF Next, Serve

\* A step that keeps the table keeps it; one that deletes a session that was there
\* deletes all its rows at once, while nobody's INSERT locks it.  Sessions come
\* into being once and keep their owner.
LEMMA StepSession ==
    ASSUME TypeOK, [Next]_vars, NEW s \in Sessions
    PROVE  /\ chat_sessions[s].status # "unused" =>
                 /\ chat_sessions'[s].status # "unused"
                 /\ chat_sessions'[s].user_id = chat_sessions[s].user_id
           /\ Live(s) /\ ~Live(s)' =>
                 /\ list_messages(s) \cap messages' = {}
                 /\ messages' \subseteq messages
                 /\ KeyShareHolders(s) = {}
                 /\ \A r \in Requests : pc'[r] = "completing" => pc[r] = "completing"
<1>0. chat_sessions \in [Sessions -> SessionRow]
    BY DEF TypeOK
<1>1. ASSUME NEW u \in Users, NEW t \in Sessions, NEW title \in {None, Given},
             CreateSession(u, t, title)
      PROVE  /\ chat_sessions[s].status # "unused" => chat_sessions'[s] = chat_sessions[s]
             /\ Live(s) => Live(s)'
    BY <1>0, <1>1 DEF CreateSession, Live
<1>2. ASSUME NEW r \in Requests,
             CommitUserTurn(r) \/ FinishStream(r) \/ FailStream(r) \/ CompleteSend(r)
      PROVE  /\ chat_sessions'[s].status = chat_sessions[s].status
             /\ chat_sessions'[s].user_id = chat_sessions[s].user_id
    <2>1. CASE CommitUserTurn(r)
        BY <2>1, TurnUpdateKeeps
    <2>2. CASE FinishStream(r) \/ FailStream(r)
        BY <1>0, <2>2 DEF FinishStream, FailStream, PersistReply, SessionRow
    <2>3. CASE CompleteSend(r)
        BY <2>3, TurnUpdateKeeps
    <2> QED
        BY <1>2, <2>1, <2>2, <2>3
<1>3. ASSUME NEW r \in Requests, Delete(r)
      PROVE  /\ chat_sessions[s].status # "unused" =>
                   /\ chat_sessions'[s].status # "unused"
                   /\ chat_sessions'[s].user_id = chat_sessions[s].user_id
             /\ Live(s) /\ ~Live(s)' =>
                   /\ list_messages(s) \cap messages' = {}
                   /\ messages' \subseteq messages
                   /\ KeyShareHolders(s) = {}
                   /\ \A q \in Requests : pc'[q] = "completing" => pc[q] = "completing"
    <2>1. /\ chat_sessions[s].status # "unused" => chat_sessions'[s].status # "unused"
          /\ chat_sessions'[s].user_id = chat_sessions[s].user_id
          /\ s # request[r].session => chat_sessions'[s] = chat_sessions[s]
        BY <1>0, <1>3 DEF Delete, SessionRow, TypeOK
    <2>2. /\ messages' = messages \ list_messages(request[r].session)
          /\ KeyShareHolders(request[r].session) = {}
          /\ \A q \in Requests : pc'[q] = "completing" => pc[q] = "completing"
        BY <1>3 DEF Delete, Goto, TypeOK
    <2> QED
        BY <2>1, <2>2 DEF Live
<1>4. CASE \E r \in Requests :
             Begin(r) \/ RejectContent(r) \/ LoadSession(r) \/ LoadHistory(r) \/ ReturnHistory(r)
             \/ FlushUserTurn(r) \/ FailSend(r) \/ Disconnect(r) \/ Die(r)
    BY <1>4 DEF Begin, RejectContent, LoadSession, LoadHistory, ReturnHistory, FlushUserTurn,
                FailSend, Disconnect, Die, Live
<1>5. CASE Quiescent \/ UNCHANGED vars
    BY <1>5 DEF Quiescent, vars, Live
<1> QED
    BY <1>1, <1>2, <1>3, <1>4, <1>5 DEF Next, Serve, Live

\* Only a deletion removes rows, and it removes every row of the session with it.
LEMMA StepRemove ==
    ASSUME TypeOK, [Next]_vars, NEW m \in messages, m \notin messages'
    PROVE  /\ list_messages(m.session) \cap messages' = {}
           /\ chat_sessions'[m.session].status = "deleted"
<1>1. CASE \E r \in Requests : Delete(r)
    <2>1. PICK r \in Requests : Delete(r)
        BY <1>1
    <2>2. m.session = request[r].session /\ m.session \in Sessions
        BY <2>1 DEF Delete, list_messages, TypeOK, MessageRow
    <2>3. chat_sessions[m.session] \in SessionRow
        BY <2>2 DEF TypeOK
    <2>4. chat_sessions'[m.session].status = "deleted"
        BY <2>1, <2>2, <2>3 DEF Delete, TypeOK, SessionRow
    <2> QED
        BY <2>1, <2>2, <2>4 DEF Delete, list_messages
<1>2. CASE \E r \in Requests :
             CommitUserTurn(r) \/ FinishStream(r) \/ FailStream(r) \/ CompleteSend(r)
    BY <1>2 DEF CommitUserTurn, FinishStream, FailStream, PersistReply, CompleteSend
<1>3. CASE \E r \in Requests :
             Begin(r) \/ RejectContent(r) \/ LoadSession(r) \/ LoadHistory(r) \/ ReturnHistory(r)
             \/ FlushUserTurn(r) \/ FailSend(r) \/ Disconnect(r) \/ Die(r)
    BY <1>3 DEF Begin, RejectContent, LoadSession, LoadHistory, ReturnHistory, FlushUserTurn,
                FailSend, Disconnect, Die
<1>4. CASE \/ \E u \in Users, s \in Sessions, title \in {None, Given} : CreateSession(u, s, title)
           \/ Quiescent \/ UNCHANGED vars
    BY <1>4 DEF CreateSession, Quiescent, vars
<1> QED
    BY <1>1, <1>2, <1>3, <1>4 DEF Next, Serve

\* How a request comes to a stage, and what it knows there.
LEMMA StepStage ==
    ASSUME TypeOK, [Next]_vars, NEW r \in Requests
    PROVE  /\ pc'[r] = "owned" => pc[r] = "owned" \/ Owned(r)
           /\ pc'[r] = "completing" =>
                 \/ pc[r] = "completing"
                 \/ /\ pc[r] = "stamped" /\ Live(request[r].session)
                    /\ UNCHANGED <<chat_sessions, messages>>
           /\ pc'[r] = "streaming" => pc[r] \in {"stamped", "streaming"}
           /\ pc'[r] = "stamped" /\ pc[r] # "stamped" =>
                 /\ pc[r] = "owned" /\ request[r].op \in {"send", "stream"}
                 /\ UNCHANGED <<chat_sessions, messages>>
                 /\ handle'[r].prompt = list_messages(request[r].session)
                 /\ \A m \in handle'[r].prompt : m.created_at < handle'[r].base
           /\ pc[r] = "owned" /\ pc'[r] # "stamped" =>
                 /\ handle'[r].base = handle[r].base
                 /\ \/ handle'[r].prompt = handle[r].prompt
                    \/ /\ request[r].op = "get"
                       /\ handle'[r].prompt = list_messages(request[r].session)
           /\ pc[r] \notin Ended /\ pc'[r] \in Ended \ {"disconnected", "died"} =>
                 \/ ReplyRow(r) \in messages'
                 \/ messages' \subseteq messages
                    /\ (pc[r] = "streaming" => ~Live(request[r].session))
<1>1. ASSUME NEW q \in Requests, LoadHistory(q)
      PROVE  /\ pc[q] = "owned" /\ request[q].op \in {"send", "stream"}
             /\ pc' = [pc EXCEPT ![q] = "stamped"]
             /\ UNCHANGED <<chat_sessions, messages>>
             /\ handle'[q].prompt = list_messages(request[q].session)
             /\ \A m \in handle'[q].prompt : m.created_at < handle'[q].base
             /\ \A t \in Requests \ {q} : handle'[t] = handle[t]
    <2> DEFINE history == list_messages(request[q].session)
    <2>1. PICK now \in Clock : \E base \in Base(now, history) :
              handle' = [handle EXCEPT ![q].prompt = history, ![q].base = base]
        BY <1>1 DEF LoadHistory
    <2>2. PICK base \in Base(now, history) :
              handle' = [handle EXCEPT ![q].prompt = history, ![q].base = base]
        BY <2>1
    <2>3. \A m \in history : m.created_at < base
        BY RowTypes, BaseFollowsHistory
    <2> HIDE DEF history
    <2>4. handle'[q].prompt = history /\ handle'[q].base = base
          /\ \A t \in Requests \ {q} : handle'[t] = handle[t]
        <3>1. handle \in [Requests -> Handle]
            BY DEF TypeOK
        <3> QED
            BY <2>2, <3>1 DEF Handle
    <2>5. /\ pc[q] = "owned" /\ request[q].op \in {"send", "stream"}
          /\ pc' = [pc EXCEPT ![q] = "stamped"]
          /\ UNCHANGED <<chat_sessions, messages>>
        BY <1>1 DEF LoadHistory, Goto
    <2> QED
        BY <2>3, <2>4, <2>5 DEF history
<1>2. ASSUME NEW q \in Requests, ReturnHistory(q)
      PROVE  /\ pc[q] = "owned" /\ request[q].op = "get"
             /\ pc' = [pc EXCEPT ![q] = "replied"]
             /\ UNCHANGED <<chat_sessions, messages>>
             /\ handle'[q].prompt = list_messages(request[q].session)
             /\ handle'[q].base = handle[q].base
             /\ \A t \in Requests \ {q} : handle'[t] = handle[t]
    BY <1>2 DEF ReturnHistory, Goto, TypeOK, Handle
<1>3. ASSUME NEW q \in Requests, LoadSession(q)
      PROVE  /\ pc[q] = "begun"
             /\ \/ Owned(q) /\ pc' = [pc EXCEPT ![q] = "owned"]
                \/ pc' = [pc EXCEPT ![q] = "not_found"]
             /\ UNCHANGED <<chat_sessions, messages>>
             /\ \A t \in Requests \ {q} : handle'[t] = handle[t]
    BY <1>3 DEF LoadSession, Goto, TypeOK
<1>4. ASSUME NEW q \in Requests,
             Begin(q) \/ RejectContent(q) \/ FlushUserTurn(q) \/ FailSend(q) \/ Disconnect(q) \/ Die(q)
      PROVE  /\ UNCHANGED <<chat_sessions, messages, handle>>
             /\ \/ pc[q] = "idle" /\ pc' = [pc EXCEPT ![q] = "begun"]
                \/ pc[q] = "begun" /\ pc' = [pc EXCEPT ![q] = "invalid"]
                \/ pc[q] = "stamped" /\ Live(request[q].session) /\ pc' = [pc EXCEPT ![q] = "completing"]
                \/ pc[q] \in {"stamped", "completing"} /\ pc' = [pc EXCEPT ![q] = "error"]
                \/ pc' = [pc EXCEPT ![q] = "disconnected"]
                \/ pc' = [pc EXCEPT ![q] = "died"]
    BY <1>4 DEF Begin, RejectContent, FlushUserTurn, FailSend, Disconnect, Die, Goto
<1>5. ASSUME NEW q \in Requests, CommitUserTurn(q) \/ FinishStream(q) \/ FailStream(q)
                                 \/ CompleteSend(q) \/ Delete(q)
      PROVE  /\ UNCHANGED handle
             /\ \/ pc[q] = "stamped" /\ pc' = [pc EXCEPT ![q] = "streaming"]
                \/ pc[q] = "stamped" /\ messages' = messages /\ pc' = [pc EXCEPT ![q] = "error"]
                \/ /\ ReplyRow(q) \in messages' /\ pc[q] \in {"streaming", "completing"}
                   /\ \E l \in {"replied", "partial"} : pc' = [pc EXCEPT ![q] = l]
                \/ /\ pc[q] = "streaming" /\ ~Live(request[q].session)
                   /\ messages' = messages /\ pc' = [pc EXCEPT ![q] = "aborted"]
                \/ /\ pc[q] = "owned" /\ messages' \subseteq messages
                   /\ pc' = [pc EXCEPT ![q] = "replied"]
    BY <1>5 DEF CommitUserTurn, FinishStream, FailStream, PersistReply, CompleteSend, Delete, Goto
<1>6. CASE \/ \E u \in Users, s \in Sessions, title \in {None, Given} : CreateSession(u, s, title)
           \/ Quiescent \/ UNCHANGED vars
    <2>1. pc' = pc /\ handle' = handle
        BY <1>6 DEF CreateSession, Quiescent, vars
    <2> QED
        BY <2>1
<1>7. pc \in [Requests -> {"idle"} \cup InFlight \cup Ended]
    BY DEF TypeOK
<1> USE DEF Ended
<1>8. CASE \E q \in Requests : LoadHistory(q)
    BY <1>1, <1>7, <1>8
<1>9. CASE \E q \in Requests : ReturnHistory(q)
    BY <1>2, <1>7, <1>9
<1>10. CASE \E q \in Requests : LoadSession(q)
    BY <1>3, <1>7, <1>10
<1>11. CASE \E q \in Requests : Begin(q) \/ RejectContent(q) \/ FlushUserTurn(q) \/ FailSend(q)
                                \/ Disconnect(q) \/ Die(q)
    BY <1>4, <1>7, <1>11
<1>12. CASE \E q \in Requests : CommitUserTurn(q) \/ FinishStream(q) \/ FailStream(q)
                                \/ CompleteSend(q) \/ Delete(q)
    BY <1>5, <1>7, <1>12
<1> QED
    BY <1>6, <1>8, <1>9, <1>10, <1>11, <1>12 DEF Next, Serve

\* What was over when a request began is fixed at that moment.
LEMMA StepBegin ==
    ASSUME TypeOK, [Next]_vars, NEW r \in Requests, before'[r] # before[r]
    PROVE  before'[r] = {q \in Requests : pc[q] \in Ended}
<1>1. CASE \E q \in Requests : Begin(q)
    BY <1>1 DEF Begin, TypeOK
<1>2. CASE \E q \in Requests : Serve(q) \/ Disconnect(q) \/ Die(q)
    BY <1>2 DEF Serve, RejectContent, LoadSession, LoadHistory, ReturnHistory, CommitUserTurn,
                FlushUserTurn, FinishStream, FailStream, PersistReply, CompleteSend, FailSend,
                Delete, Disconnect, Die
<1>3. CASE \/ \E u \in Users, s \in Sessions, title \in {None, Given} : CreateSession(u, s, title)
           \/ Quiescent \/ UNCHANGED vars
    BY <1>3 DEF CreateSession, Quiescent, vars
<1> QED
    BY <1>1, <1>2, <1>3 DEF Next

-----------------------------------------------------------------------------
(* The inductive invariant. *)

AtTurn == {"stamped", "streaming", "completing"}

\* A request that had ended stays ended.
PastIsOver == \A r \in Requests : \A q \in before[r] : pc[q] \in Ended

\* Stored turns are turns of requests that got as far as a COMMIT.
RowsHaveWriters ==
    /\ \A r \in Requests : pc[r] \in AtTurn => request[r].op \in {"send", "stream"}
    /\ \A m \in messages : /\ m \in {UserRow(m.req), ReplyRow(m.req)}
                           /\ pc[m.req] \in {"streaming"} \cup Ended
                           /\ request[m.req].op \in {"send", "stream"}

\* A user turn is stamped after all of its prompt.
PromptsPrecede ==
    \A r \in Requests : request[r].op \in {"send", "stream"} =>
        \A m \in handle[r].prompt : m.created_at < handle[r].base

Covered(r) == \A m \in messages :
    m.session = request[r].session /\ m.req \in before[r] => m \in handle[r].prompt

\* From the moment its history is read, what a request had seen end is in its
\* prompt: whoever could still add a row had not ended when it began.
CoversThePast ==
    \A r \in Requests : pc[r] \in AtTurn \/ (\E m \in messages : m.req = r) => Covered(r)

\* The owner that _owned_session checked stays the owner.
OwnerStays ==
    \A r \in Requests : pc[r] \in {"owned"} \cup AtTurn =>
        LET row == chat_sessions[request[r].session]
        IN  row.status # "unused" /\ row.user_id = request[r].actor

IInv ==
    /\ TypeOK
    /\ PastIsOver
    /\ RowsHaveWriters
    /\ PromptsPrecede
    /\ CoversThePast
    /\ NoOrphans
    /\ DanglingOnlyIfAbandoned
    /\ OwnerStays
    /\ OwnerOnly

LEMMA PastIsOverStep == TypeOK /\ PastIsOver /\ [Next]_vars => PastIsOver'
<1> SUFFICES ASSUME TypeOK, PastIsOver, [Next]_vars, NEW r \in Requests, NEW q \in before'[r]
             PROVE  pc'[q] \in Ended
    BY DEF PastIsOver
<1>1. q \in Requests /\ pc[q] \in Ended
    BY StepBegin DEF PastIsOver, TypeOK
<1> QED
    BY <1>1, StepFrame

LEMMA RowsHaveWritersStep == TypeOK /\ RowsHaveWriters /\ [Next]_vars => RowsHaveWriters'
<1> SUFFICES ASSUME TypeOK, RowsHaveWriters, [Next]_vars PROVE RowsHaveWriters'
    OBVIOUS
<1>1. ASSUME NEW r \in Requests, pc'[r] \in AtTurn
      PROVE  request'[r].op \in {"send", "stream"}
    BY <1>1, StepFrame, StepStage DEF AtTurn, RowsHaveWriters
<1>2. ASSUME NEW m \in messages'
      PROVE  /\ m \in {UserRow(m.req)', ReplyRow(m.req)'}
             /\ pc'[m.req] \in {"streaming"} \cup Ended
             /\ request'[m.req].op \in {"send", "stream"}
    <2>1. CASE m \in messages
        <3>1. /\ m.req \in Requests /\ m \in {UserRow(m.req), ReplyRow(m.req)}
              /\ pc[m.req] \in {"streaming"} \cup Ended
              /\ request[m.req].op \in {"send", "stream"}
            BY <2>1 DEF RowsHaveWriters, TypeOK, MessageRow
        <3>2. pc'[m.req] \in {"streaming"} \cup Ended
            BY <3>1, StepFrame, StepStage DEF Ended
        <3>3. UserRow(m.req)' = UserRow(m.req) /\ ReplyRow(m.req)' = ReplyRow(m.req)
            BY <3>1, StepFrame DEF UserRow, ReplyRow, Ended
        <3> QED
            BY <3>1, <3>2, <3>3, StepFrame
    <2>2. CASE m \notin messages
        <3>1. PICK r \in Requests :
                /\ m \in {UserRow(r), ReplyRow(r)}
                /\ pc[r] \in AtTurn
                /\ pc'[r] \in {"streaming"} \cup Ended
            BY <2>2, StepInsert DEF AtTurn
        <3>2. m.req = r
            BY <3>1 DEF UserRow, ReplyRow
        <3>3. UserRow(r)' = UserRow(r) /\ ReplyRow(r)' = ReplyRow(r)
            BY <3>1, StepFrame DEF UserRow, ReplyRow, AtTurn
        <3>4. request[r].op \in {"send", "stream"}
            BY <3>1 DEF RowsHaveWriters
        <3> QED
            BY <3>1, <3>2, <3>3, <3>4, StepFrame
    <2> QED
        BY <2>1, <2>2
<1> QED
    BY <1>1, <1>2 DEF RowsHaveWriters

LEMMA PromptsPrecedeStep == TypeOK /\ PromptsPrecede /\ [Next]_vars => PromptsPrecede'
<1> SUFFICES ASSUME TypeOK, PromptsPrecede, [Next]_vars, NEW r \in Requests,
                    request'[r].op \in {"send", "stream"}, NEW m \in handle'[r].prompt
             PROVE  m.created_at < handle'[r].base
    BY DEF PromptsPrecede
<1>1. request[r].op \in {"send", "stream"}
    BY StepFrame
<1>2. CASE pc[r] = "owned" /\ pc'[r] = "stamped"
    BY <1>2, StepStage
<1>3. CASE ~(pc[r] = "owned" /\ pc'[r] = "stamped")
    BY <1>1, <1>3, StepFrame, StepStage DEF PromptsPrecede
<1> QED
    BY <1>2, <1>3

LEMMA CoversThePastStep ==
    TypeOK /\ PastIsOver /\ RowsHaveWriters /\ CoversThePast /\ [Next]_vars => CoversThePast'
<1> SUFFICES ASSUME TypeOK, PastIsOver, RowsHaveWriters, CoversThePast, [Next]_vars,
                    NEW r \in Requests, pc'[r] \in AtTurn \/ \E w \in messages' : w.req = r,
                    NEW m \in messages', m.session = request'[r].session, m.req \in before'[r]
             PROVE  m \in handle'[r].prompt
    BY DEF CoversThePast, Covered
<1>1. request' = request
    BY StepFrame
<1>2. CASE pc'[r] = "stamped" /\ pc[r] # "stamped"
    BY <1>1, <1>2, StepStage DEF list_messages
<1>3. CASE ~(pc'[r] = "stamped" /\ pc[r] # "stamped")
    <2>1. pc[r] \in AtTurn \/ \E w \in messages : w.req = r
        <3>1. CASE pc'[r] \in AtTurn
            BY <1>3, <3>1, StepStage DEF AtTurn
        <3>2. ASSUME NEW w \in messages', w.req = r, w \notin messages
              PROVE  pc[r] \in AtTurn
            BY <3>2, StepInsert DEF AtTurn, UserRow, ReplyRow
        <3> QED
            BY <3>1, <3>2
    <2>2. pc[r] \notin {"idle", "owned"}
        BY <2>1 DEF AtTurn, RowsHaveWriters, Ended
    <2>3. before'[r] = before[r] /\ handle'[r].prompt = handle[r].prompt
        BY <2>2, StepFrame
    <2>4. m \in messages
        <3>1. m.req \in Requests /\ pc[m.req] \in Ended
            BY <2>3 DEF PastIsOver, TypeOK
        <3>2. SUFFICES ASSUME m \notin messages PROVE FALSE
            OBVIOUS
        <3>3. pc[m.req] \in AtTurn
            BY <3>2, StepInsert DEF AtTurn, UserRow, ReplyRow
        <3> QED
            BY <3>1, <3>3 DEF AtTurn, Ended
    <2> QED
        BY <1>1, <2>1, <2>3, <2>4 DEF CoversThePast, Covered
<1> QED
    BY <1>2, <1>3

LEMMA NoOrphansStep == TypeOK /\ NoOrphans /\ [Next]_vars => NoOrphans'
<1> SUFFICES ASSUME TypeOK, NoOrphans, [Next]_vars PROVE NoOrphans'
    OBVIOUS
<1>1. ASSUME NEW m \in messages' PROVE Live(m.session)'
    <2>1. CASE m \in messages
        BY <2>1, StepSession DEF NoOrphans, list_messages, TypeOK, MessageRow
    <2>2. CASE m \notin messages
        <3>1. PICK r \in Requests :
                /\ m \in {UserRow(r), ReplyRow(r)}
                /\ pc[r] = "completing" \/ Live(request[r].session)
                /\ \A s \in Sessions : chat_sessions'[s].status = chat_sessions[s].status
            BY <2>2, StepInsert
        <3>2. m.session = request[r].session /\ request[r].session \in Sessions
            BY <3>1 DEF UserRow, ReplyRow, TypeOK
        <3> QED
            BY <3>1, <3>2 DEF NoOrphans, Live
    <2> QED
        BY <2>1, <2>2
<1>2. ASSUME NEW r \in Requests, pc'[r] = "completing"
      PROVE  chat_sessions'[request'[r].session].status = "live"
    <2>1. request' = request /\ request[r].session \in Sessions
        BY StepFrame DEF TypeOK
    <2>2. CASE pc[r] = "completing"
        BY <1>2, <2>1, <2>2, StepSession DEF NoOrphans, KeyShareHolders, Live
    <2>3. CASE pc[r] # "completing"
        BY <1>2, <2>1, <2>3, StepStage DEF Live
    <2> QED
        BY <2>2, <2>3
<1> QED
    BY <1>1, <1>2 DEF NoOrphans, Live

LEMMA DanglingStep ==
    TypeOK /\ RowsHaveWriters /\ NoOrphans /\ DanglingOnlyIfAbandoned /\ [Next]_vars
        => DanglingOnlyIfAbandoned'
<1> SUFFICES ASSUME TypeOK, RowsHaveWriters, NoOrphans, DanglingOnlyIfAbandoned, [Next]_vars,
                    NEW r \in Requests, pc'[r] \in Ended \ {"disconnected", "died"},
                    UserRow(r)' \in messages', ReplyRow(r)' \notin messages'
             PROVE  FALSE
    BY DEF DanglingOnlyIfAbandoned
<1>1. UserRow(r)' = UserRow(r) /\ ReplyRow(r)' = ReplyRow(r)
    <2>1. request'[r].session = request[r].session /\ handle'[r].base = handle[r].base
        <3>1. CASE pc[r] = "owned"
            <4>1. pc'[r] # "stamped"
                BY DEF Ended
            <4> QED
                BY <3>1, <4>1, StepFrame, StepStage
        <3>2. CASE pc[r] # "owned"
            BY <3>2, StepFrame
        <3> QED
            BY <3>1, <3>2
    <2> QED
        BY <2>1 DEF UserRow, ReplyRow
<1>2. UserRow(r).req = r /\ UserRow(r).session = request[r].session
    BY DEF UserRow
<1>3. CASE pc[r] \in Ended
    <2>1. pc[r] \in Ended \ {"disconnected", "died"}
        BY <1>3, StepFrame
    <2>2. UserRow(r) \in messages
        <3>1. SUFFICES ASSUME UserRow(r) \notin messages PROVE FALSE
            OBVIOUS
        <3>2. pc[r] \in AtTurn
            BY <1>1, <1>2, <3>1, StepInsert DEF AtTurn, UserRow, ReplyRow
        <3> QED
            BY <1>3, <3>2 DEF AtTurn, Ended
    <2>3. ReplyRow(r) \in messages
        BY <2>1, <2>2 DEF DanglingOnlyIfAbandoned
    <2>4. list_messages(ReplyRow(r).session) \cap messages' = {}
        BY <1>1, <2>3, StepRemove
    <2>5. UserRow(r) \in list_messages(ReplyRow(r).session)
        BY <1>2, <2>2 DEF list_messages, ReplyRow
    <2> QED
        BY <1>1, <2>4, <2>5
<1>4. CASE pc[r] \notin Ended
    <2>1. messages' \subseteq messages /\ (pc[r] = "streaming" => ~Live(request[r].session))
        BY <1>1, <1>4, StepStage
    <2>2. UserRow(r) \in messages
        BY <1>1, <2>1
    <2>3. pc[r] = "streaming" /\ Live(request[r].session)
        BY <1>2, <1>4, <2>2 DEF RowsHaveWriters, NoOrphans
    <2> QED
        BY <2>1, <2>3
<1> QED
    BY <1>3, <1>4

LEMMA OwnerStaysStep == TypeOK /\ OwnerStays /\ [Next]_vars => OwnerStays'
<1> SUFFICES ASSUME TypeOK, OwnerStays, [Next]_vars,
                    NEW r \in Requests, pc'[r] \in {"owned"} \cup AtTurn
             PROVE  LET row == chat_sessions'[request'[r].session]
                    IN  row.status # "unused" /\ row.user_id = request'[r].actor
    BY DEF OwnerStays
<1>1. request' = request /\ request[r].session \in Sessions
    BY StepFrame DEF TypeOK
<1>2. pc[r] \in {"owned"} \cup AtTurn \/ Owned(r)
    BY StepStage DEF AtTurn
<1>3. LET row == chat_sessions[request[r].session]
      IN  row.status # "unused" /\ row.user_id = request[r].actor
    BY <1>2 DEF OwnerStays, Owned, Live
<1> QED
    BY <1>1, <1>3, StepSession

LEMMA OwnerOnlyStep ==
    TypeOK /\ NoOrphans /\ OwnerStays /\ OwnerOnly /\ [Next]_vars => OwnerOnly'
<1> SUFFICES ASSUME TypeOK, NoOrphans, OwnerStays, OwnerOnly, [Next]_vars PROVE OwnerOnly'
    OBVIOUS
<1>0. request' = request
    <2>1. CASE Requests = {}
        BY <2>1 DEF Next, vars, CreateSession, Quiescent
    <2> QED
        BY <2>1, StepFrame
<1>1. ASSUME NEW m \in messages'
      PROVE  chat_sessions'[m.session].user_id = request[m.req].actor
    <2>1. CASE m \in messages
        <3>1. m.session \in Sessions /\ Live(m.session)
            BY <2>1 DEF NoOrphans, TypeOK, MessageRow
        <3> QED
            BY <2>1, <3>1, StepSession DEF OwnerOnly, Live
    <2>2. CASE m \notin messages
        <3>1. PICK r \in Requests : m \in {UserRow(r), ReplyRow(r)} /\ pc[r] \in AtTurn
            BY <2>2, StepInsert DEF AtTurn
        <3>2. m.session = request[r].session /\ m.req = r /\ request[r].session \in Sessions
            BY <3>1 DEF UserRow, ReplyRow, TypeOK
        <3> QED
            BY <3>1, <3>2, StepSession DEF OwnerStays
    <2> QED
        BY <2>1, <2>2
<1>2. ASSUME NEW r \in Requests, NEW m \in handle'[r].prompt
      PROVE  m.session = request[r].session /\ request[m.req].actor = request[r].actor
    <2>1. CASE m \in handle[r].prompt
        BY <2>1 DEF OwnerOnly
    <2>2. CASE m \notin handle[r].prompt
        <3>1. pc[r] = "owned" /\ m \in list_messages(request[r].session)
            BY <2>2, StepFrame, StepStage
        <3> QED
            BY <3>1 DEF OwnerOnly, OwnerStays, list_messages
    <2> QED
        BY <2>1, <2>2
<1> QED
    BY <1>0, <1>1, <1>2 DEF OwnerOnly

LEMMA IInvInit == Init => IInv
BY DEF Init, IInv, TypeOK, SessionRow, Handle, NoHandle, Titles, PastIsOver, RowsHaveWriters,
       AtTurn, PromptsPrecede, CoversThePast, NoOrphans, DanglingOnlyIfAbandoned, Ended,
       OwnerStays, OwnerOnly

LEMMA IInvStep == IInv /\ [Next]_vars => IInv'
BY TypeStep, PastIsOverStep, RowsHaveWritersStep, PromptsPrecedeStep, CoversThePastStep,
   NoOrphansStep, DanglingStep, OwnerStaysStep, OwnerOnlyStep DEF IInv

LEMMA IInvHolds == Spec => []IInv
BY IInvInit, IInvStep, PTL DEF Spec

-----------------------------------------------------------------------------
(* The theorems. *)

LEMMA IInvOrders == IInv => RealTimeOrder
<1> SUFFICES ASSUME IInv, NEW m1 \in messages, NEW m2 \in messages,
                    m1.session = m2.session, m1.req \in before[m2.req]
             PROVE  m1.created_at < m2.created_at
    BY DEF RealTimeOrder
<1> DEFINE r == m2.req
<1>1. r \in Requests /\ m2 \in {UserRow(r), ReplyRow(r)} /\ request[r].op \in {"send", "stream"}
    BY DEF IInv, TypeOK, MessageRow, RowsHaveWriters
<1>2. m2.session = request[r].session
    BY <1>1 DEF UserRow, ReplyRow
<1>3. m1 \in handle[r].prompt
    BY <1>1, <1>2 DEF IInv, CoversThePast, Covered
<1>4. m1.created_at < handle[r].base
    BY <1>1, <1>3 DEF IInv, PromptsPrecede
<1>5. handle[r].base \in Nat /\ m1.created_at \in Nat
    BY <1>1 DEF IInv, TypeOK, Handle, MessageRow
<1>6. m2.created_at \in {handle[r].base, handle[r].base + 1}
    BY <1>1 DEF UserRow, ReplyRow
<1> QED
    BY <1>4, <1>5, <1>6

\* Whatever the clock does, a turn of a request that began after another one had
\* ended sorts strictly after all the other one stored (open_stream's stamp).
THEOREM TurnsKeepRealTimeOrder == Spec => []RealTimeOrder
BY IInvHolds, IInvOrders, PTL

\* Whoever asks the provider shows it every turn stored by requests that had ended
\* before, stamped before its own (open_stream's prompt).
THEOREM PromptsCoverThePast == Spec => []PromptCoversThePast
<1>1. IInv => PromptCoversThePast
    <2> SUFFICES ASSUME IInv, NEW r \in Requests, request[r].op \in {"send", "stream"}
                 PROVE  /\ \A m \in handle[r].prompt : m.created_at < handle[r].base
                        /\ pc[r] \in {"streaming", "completing"} \/ UserRow(r) \in messages =>
                              Covered(r)
        BY DEF PromptCoversThePast, Covered
    <2>1. UserRow(r).req = r
        BY DEF UserRow
    <2> QED
        BY <2>1 DEF IInv, PromptsPrecede, CoversThePast, AtTurn
<1> QED
    BY <1>1, IInvHolds, PTL

\* No turn outlives its session, and no send loses its session while it waits for
\* the provider (the foreign key and its lock).
THEOREM NoOrphanedTurns == Spec => []NoOrphans
<1>1. IInv => NoOrphans
    BY DEF IInv
<1> QED
    BY <1>1, IInvHolds, PTL

\* Only a disconnected client or a dead worker leaves a stored user turn without
\* a reply (stream_reply and send_message).
THEOREM OnlyAbandonedTurnsDangle == Spec => []DanglingOnlyIfAbandoned
<1>1. IInv => DanglingOnlyIfAbandoned
    BY DEF IInv
<1> QED
    BY <1>1, IInvHolds, PTL

\* Turns are written only into sessions of their author, and prompts and loaded
\* histories hold only the author's turns of that session (_owned_session).
THEOREM OnlyOwnersTurns == Spec => []OwnerOnly
<1>1. IInv => OwnerOnly
    BY DEF IInv
<1> QED
    BY <1>1, IInvHolds, PTL

\* A committed turn goes only with its whole session, and a deleted session takes no
\* turn any more (delete_session; the foreign key at the INSERTs).
THEOREM HistoryOnlyGrows == Spec => HistoryIsAppendOnly
<1> DEFINE Appends ==
        /\ \A m \in messages \ messages' : chat_sessions'[m.session].status = "deleted"
        /\ \A m \in messages' \ messages : Live(m.session) /\ Live(m.session)'
<1>1. IInv /\ [Next]_vars => [Appends]_vars
    <2> SUFFICES ASSUME IInv, [Next]_vars PROVE Appends
        OBVIOUS
    <2>1. TypeOK /\ NoOrphans
        BY DEF IInv
    <2>2. ASSUME NEW m \in messages \ messages'
          PROVE  chat_sessions'[m.session].status = "deleted"
        BY <2>1, <2>2, StepRemove
    <2>3. ASSUME NEW m \in messages' \ messages
          PROVE  Live(m.session) /\ Live(m.session)'
        <3>1. PICK r \in Requests :
                /\ m \in {UserRow(r), ReplyRow(r)}
                /\ pc[r] = "completing" \/ Live(request[r].session)
                /\ \A s \in Sessions : chat_sessions'[s].status = chat_sessions[s].status
            BY <2>1, <2>3, StepInsert
        <3>2. m.session = request[r].session /\ m.session \in Sessions
            BY <2>1, <3>1 DEF UserRow, ReplyRow, TypeOK
        <3> QED
            BY <2>1, <3>1, <3>2 DEF NoOrphans, Live
    <2> QED
        BY <2>2, <2>3
<1> QED
    BY <1>1, IInvHolds, PTL DEF Spec, HistoryIsAppendOnly, Appends
-----------------------------------------------------------------------------
(* Titles. *)

Titling == {"owned", "stamped", "completing"}

\* A title changes when its session is created or when a request that had loaded the
\* session untitled commits its turn.
LEMMA StepTitle ==
    ASSUME TypeOK, [Next]_vars, NEW s \in Sessions,
           chat_sessions'[s].title # chat_sessions[s].title
    PROVE  \/ chat_sessions[s].status = "unused"
           \/ \E q \in Requests : /\ pc[q] \in {"stamped", "completing"} /\ pc'[q] \notin Titling
                                  /\ request[q].session = s /\ handle[q].title = None
                                  /\ chat_sessions'[s].title = q
                                  /\ before' = before
<1>0. chat_sessions \in [Sessions -> SessionRow] /\ pc \in [Requests -> {"idle"} \cup InFlight \cup Ended]
    BY DEF TypeOK
<1>1. ASSUME NEW u \in Users, NEW t \in Sessions, NEW title \in {None, Given},
             CreateSession(u, t, title)
      PROVE  chat_sessions[s].status = "unused"
    BY <1>0, <1>1 DEF CreateSession
<1>2. ASSUME NEW q \in Requests, CommitUserTurn(q) \/ CompleteSend(q)
      PROVE  /\ pc[q] \in {"stamped", "completing"} /\ pc'[q] \notin Titling
             /\ request[q].session = s /\ handle[q].title = None
             /\ chat_sessions'[s].title = q
             /\ before' = before
    <2>1. \E at : chat_sessions' = [chat_sessions EXCEPT ![request[q].session].title = TitleAfter(q),
                                                        ![request[q].session].updated_at = at]
        BY <1>2 DEF CommitUserTurn, CompleteSend
    <2>2. PICK at : chat_sessions' = [chat_sessions EXCEPT
                        ![request[q].session].title = TitleAfter(q),
                        ![request[q].session].updated_at = at]
        BY <2>1
    <2>3. request[q].session = s /\ chat_sessions'[s].title = TitleAfter(q)
        BY <1>0, <2>2 DEF SessionRow
    <2>4. /\ pc[q] \in {"stamped", "completing"} /\ before' = before
          /\ pc'[q] \in {"streaming", "error", "replied"}
        BY <1>0, <1>2 DEF CommitUserTurn, CompleteSend, Goto
    <2> QED
        BY <2>3, <2>4 DEF TitleAfter, Titling
<1>3. ASSUME NEW q \in Requests, FinishStream(q) \/ FailStream(q) \/ Delete(q)
      PROVE  FALSE
    BY <1>0, <1>3 DEF FinishStream, FailStream, PersistReply, Delete, SessionRow
<1>4. CASE \E q \in Requests :
             Begin(q) \/ RejectContent(q) \/ LoadSession(q) \/ LoadHistory(q) \/ ReturnHistory(q)
             \/ FlushUserTurn(q) \/ FailSend(q) \/ Disconnect(q) \/ Die(q)
    BY <1>4 DEF Begin, RejectContent, LoadSession, LoadHistory, ReturnHistory, FlushUserTurn,
                FailSend, Disconnect, Die
<1>5. CASE Quiescent \/ UNCHANGED vars
    BY <1>5 DEF Quiescent, vars
<1> QED
    BY <1>1, <1>2, <1>3, <1>4, <1>5 DEF Next, Serve

\* The title a request goes by is the one it loaded with the session.
LEMMA StepLoad ==
    ASSUME TypeOK, [Next]_vars, NEW r \in Requests, pc'[r] \in Titling
    PROVE  \/ pc[r] \in Titling /\ handle'[r].title = handle[r].title
           \/ /\ handle'[r].title = chat_sessions[request[r].session].title
              /\ UNCHANGED chat_sessions
<1>0. handle \in [Requests -> Handle] /\ pc \in [Requests -> {"idle"} \cup InFlight \cup Ended]
    BY DEF TypeOK
<1> USE DEF Titling
<1>1. CASE \E q \in Requests : LoadSession(q)
    BY <1>0, <1>1 DEF LoadSession, Goto, Handle
<1>2. CASE \E q \in Requests : ReturnHistory(q)
    BY <1>0, <1>2 DEF ReturnHistory, Goto, Handle
<1>3. CASE \E q \in Requests : LoadHistory(q)
    <2>1. PICK q \in Requests : LoadHistory(q)
        BY <1>3
    <2>2. \E base : handle' = [handle EXCEPT ![q].prompt = list_messages(request[q].session),
                                             ![q].base = base]
        BY <2>1 DEF LoadHistory
    <2>3. handle'[r].title = handle[r].title
        BY <1>0, <2>2 DEF Handle
    <2> QED
        BY <1>0, <2>1, <2>3 DEF LoadHistory, Goto
<1>4. CASE \E q \in Requests :
             Begin(q) \/ RejectContent(q) \/ FlushUserTurn(q) \/ FailSend(q) \/ Disconnect(q) \/ Die(q)
    BY <1>0, <1>4 DEF Begin, RejectContent, FlushUserTurn, FailSend, Disconnect, Die, Goto
<1>5. CASE \E q \in Requests : CommitUserTurn(q) \/ FinishStream(q) \/ FailStream(q)
                               \/ CompleteSend(q) \/ Delete(q)
    BY <1>0, <1>5 DEF CommitUserTurn, FinishStream, FailStream, PersistReply, CompleteSend,
                      Delete, Goto
<1>6. CASE \/ \E u \in Users, s \in Sessions, title \in {None, Given} : CreateSession(u, s, title)
           \/ Quiescent \/ UNCHANGED vars
    BY <1>6 DEF CreateSession, Quiescent, vars
<1> QED
    BY <1>1, <1>2, <1>3, <1>4, <1>5, <1>6 DEF Next, Serve

\* What a session is called by now, if a request that is about to name it found it
\* untitled: nothing yet, or after a request that runs, or ran, beside this one.
NamedBeside ==
    \A r \in Requests : pc[r] \in Titling /\ handle[r].title = None =>
        LET title == chat_sessions[request[r].session].title
        IN  title = None \/ \E q \in Requests : title = q /\ Overlap(q, r)

LEMMA NamedBesideStep ==
    TypeOK /\ PastIsOver /\ OwnerStays /\ NamedBeside /\ [Next]_vars => NamedBeside'
<1> SUFFICES ASSUME TypeOK, PastIsOver, OwnerStays, NamedBeside, [Next]_vars,
                    NEW r \in Requests, pc'[r] \in Titling, handle'[r].title = None
             PROVE  LET title == chat_sessions'[request'[r].session].title
                    IN  title = None \/ \E q \in Requests : title = q /\ Overlap(q, r)'
    BY DEF NamedBeside
<1> DEFINE s == request[r].session
<1>1. request' = request /\ s \in Sessions
    BY StepFrame DEF TypeOK
<1>2. CASE ~(pc[r] \in Titling /\ handle'[r].title = handle[r].title)
    BY <1>1, <1>2, StepLoad
<1>3. CASE pc[r] \in Titling /\ handle'[r].title = handle[r].title
    <2>1. before'[r] = before[r] /\ pc[r] \notin Ended
        BY <1>3, StepFrame DEF Titling, Ended
    <2>2. CASE chat_sessions'[s].title = chat_sessions[s].title
        <3>1. SUFFICES ASSUME NEW q \in Requests, Overlap(q, r) PROVE Overlap(q, r)'
            BY <1>1, <1>3, <2>2 DEF NamedBeside
        <3>2. r \notin before'[q]
            <4>1. CASE before'[q] = before[q]
                BY <3>1, <4>1 DEF Overlap
            <4>2. CASE before'[q] # before[q]
                BY <2>1, <4>2, StepBegin
            <4> QED
                BY <4>1, <4>2
        <3> QED
            BY <2>1, <3>1, <3>2 DEF Overlap
    <2>3. CASE chat_sessions'[s].title # chat_sessions[s].title
        <3>1. chat_sessions[s].status # "unused"
            BY <1>3 DEF OwnerStays, Titling, AtTurn
        <3>2. PICK q \in Requests : /\ pc[q] \in {"stamped", "completing"} /\ pc'[q] \notin Titling
                                    /\ chat_sessions'[s].title = q /\ before' = before
            BY <1>1, <2>3, <3>1, StepTitle
        <3>3. q # r /\ pc[q] \notin Ended
            BY <3>2 DEF Ended
        <3>4. Overlap(q, r)'
            BY <2>1, <3>2, <3>3 DEF Overlap, PastIsOver
        <3> QED
            BY <1>1, <3>2, <3>4
    <2> QED
        BY <2>2, <2>3
<1> QED
    BY <1>2, <1>3

\* A title is set once; only a request that ran beside the one that set it can replace
\* it, and a title given at creation stays (_save_user_turn and its stale copy).
THEOREM TitlesStay == Spec => TitleOverwrittenOnlyByOverlap
<1> DEFINE Kept ==
        \A s \in Sessions : Live(s) /\ chat_sessions'[s].title # chat_sessions[s].title =>
          \/ chat_sessions[s].title = None
          \/ chat_sessions[s].title \in Requests /\ chat_sessions'[s].title \in Requests
             /\ Overlap(chat_sessions[s].title, chat_sessions'[s].title)
<1>1. Init => NamedBeside
    BY DEF Init, NamedBeside, Titling
<1>2. IInv /\ NamedBeside /\ [Next]_vars => NamedBeside'
    BY NamedBesideStep DEF IInv
<1>3. IInv /\ NamedBeside /\ [Next]_vars => [Kept]_vars
    <2> SUFFICES ASSUME IInv, NamedBeside, [Next]_vars, NEW s \in Sessions,
                        Live(s), chat_sessions'[s].title # chat_sessions[s].title
                 PROVE  \/ chat_sessions[s].title = None
                        \/ chat_sessions[s].title \in Requests /\ chat_sessions'[s].title \in Requests
                           /\ Overlap(chat_sessions[s].title, chat_sessions'[s].title)
        OBVIOUS
    <2>1. PICK q \in Requests : /\ pc[q] \in {"stamped", "completing"}
                                /\ request[q].session = s /\ handle[q].title = None
                                /\ chat_sessions'[s].title = q
        BY StepTitle DEF IInv, Live
    <2> QED
        BY <2>1 DEF NamedBeside, Titling
<1> QED
    BY <1>1, <1>2, <1>3, IInvHolds, PTL DEF Spec, TitleOverwrittenOnlyByOverlap, Kept

-----------------------------------------------------------------------------
(* A stream that is under way has said its turn and got no reply. *)

UnderWay ==
    \A r \in Requests : pc[r] = "streaming" =>
        /\ ReplyRow(r) \notin messages
        /\ Live(request[r].session) => UserRow(r) \in messages

\* A stream that goes on has just said its turn, or writes nothing.
LEMMA StepSay ==
    ASSUME TypeOK, [Next]_vars, NEW r \in Requests, pc'[r] = "streaming"
    PROVE  \/ pc[r] = "streaming" /\ \A m \in messages' \ messages : m.req # r
           \/ pc[r] = "stamped" /\ messages' = messages \cup {UserRow(r)}
<1>0. pc \in [Requests -> {"idle"} \cup InFlight \cup Ended]
    BY DEF TypeOK
<1>1. ASSUME NEW q \in Requests,
             CommitUserTurn(q) \/ FinishStream(q) \/ FailStream(q) \/ CompleteSend(q)
      PROVE  /\ \A m \in messages' \ messages : m.req = q
             /\ \A p \in Requests \ {q} : pc'[p] = pc[p]
             /\ pc'[q] = "streaming" => pc[q] = "stamped" /\ messages' = messages \cup {UserRow(q)}
    BY <1>0, <1>1 DEF CommitUserTurn, FinishStream, FailStream, PersistReply, CompleteSend,
                      Goto, UserRow, ReplyRow
<1>2. ASSUME NEW q \in Requests,
             Begin(q) \/ RejectContent(q) \/ LoadSession(q) \/ LoadHistory(q) \/ ReturnHistory(q)
             \/ FlushUserTurn(q) \/ FailSend(q) \/ Delete(q) \/ Disconnect(q) \/ Die(q)
      PROVE  /\ messages' \subseteq messages
             /\ pc'[r] = pc[r]
    BY <1>0, <1>2 DEF Begin, RejectContent, LoadSession, LoadHistory, ReturnHistory, FlushUserTurn,
                      FailSend, Delete, Disconnect, Die, Goto
<1>3. CASE \/ \E u \in Users, s \in Sessions, title \in {None, Given} : CreateSession(u, s, title)
           \/ Quiescent \/ UNCHANGED vars
    BY <1>3 DEF CreateSession, Quiescent, vars
<1>4. CASE \E q \in Requests :
             CommitUserTurn(q) \/ FinishStream(q) \/ FailStream(q) \/ CompleteSend(q)
    BY <1>1, <1>4
<1>5. CASE \E q \in Requests :
             Begin(q) \/ RejectContent(q) \/ LoadSession(q) \/ LoadHistory(q) \/ ReturnHistory(q)
             \/ FlushUserTurn(q) \/ FailSend(q) \/ Delete(q) \/ Disconnect(q) \/ Die(q)
    BY <1>2, <1>5
<1> QED
    BY <1>3, <1>4, <1>5 DEF Next, Serve

\* A session that is gone stays gone.
LEMMA StepDeleted ==
    ASSUME TypeOK, [Next]_vars, NEW s \in Sessions, chat_sessions[s].status = "deleted"
    PROVE  chat_sessions'[s].status = "deleted"
<1>0. chat_sessions \in [Sessions -> SessionRow]
    BY DEF TypeOK
<1>1. CASE \E u \in Users, t \in Sessions, title \in {None, Given} : CreateSession(u, t, title)
    BY <1>0, <1>1 DEF CreateSession
<1>2. CASE \E r \in Requests : CommitUserTurn(r) \/ CompleteSend(r)
    BY <1>2, TurnUpdateKeeps
<1>3. CASE \E r \in Requests : FinishStream(r) \/ FailStream(r) \/ Delete(r)
    BY <1>0, <1>3 DEF FinishStream, FailStream, PersistReply, Delete, SessionRow
<1>4. CASE \E r \in Requests :
             Begin(r) \/ RejectContent(r) \/ LoadSession(r) \/ LoadHistory(r) \/ ReturnHistory(r)
             \/ FlushUserTurn(r) \/ FailSend(r) \/ Disconnect(r) \/ Die(r)
    BY <1>4 DEF Begin, RejectContent, LoadSession, LoadHistory, ReturnHistory, FlushUserTurn,
                FailSend, Disconnect, Die
<1>5. CASE Quiescent \/ UNCHANGED vars
    BY <1>5 DEF Quiescent, vars
<1> QED
    BY <1>1, <1>2, <1>3, <1>4, <1>5 DEF Next, Serve

LEMMA UnderWayStep == IInv /\ UnderWay /\ [Next]_vars => UnderWay'
<1> SUFFICES ASSUME IInv, UnderWay, [Next]_vars, NEW r \in Requests, pc'[r] = "streaming"
             PROVE  /\ ReplyRow(r)' \notin messages'
                    /\ Live(request[r].session)' => UserRow(r)' \in messages'
    BY DEF UnderWay
<1>0. TypeOK /\ RowsHaveWriters /\ OwnerStays
    BY DEF IInv
<1>1. pc[r] \in {"stamped", "streaming"} /\ request' = request /\ request[r].session \in Sessions
    BY <1>0, StepStage, StepFrame DEF TypeOK
<1>2. UserRow(r)' = UserRow(r) /\ ReplyRow(r)' = ReplyRow(r)
    BY <1>0, <1>1, StepFrame DEF UserRow, ReplyRow
<1>3. UserRow(r).req = r /\ ReplyRow(r).req = r /\ UserRow(r) # ReplyRow(r)
      /\ UserRow(r).session = request[r].session
    BY DEF UserRow, ReplyRow
<1>4. ReplyRow(r) \notin messages
    BY <1>0, <1>1, <1>3 DEF UnderWay, RowsHaveWriters, Ended
<1>5. ReplyRow(r) \notin messages'
    BY <1>0, <1>3, <1>4, StepSay
<1>6. ASSUME Live(request[r].session)' PROVE UserRow(r) \in messages'
    <2>1. chat_sessions'[request[r].session].status = "live"
        BY <1>1, <1>6 DEF Live
    <2>2. CASE pc[r] = "stamped"
        BY <1>0, <2>2, StepSay
    <2>3. CASE pc[r] = "streaming"
        <3>1. chat_sessions[request[r].session].status # "unused"
            BY <1>0, <2>3 DEF OwnerStays, AtTurn
        <3>2. chat_sessions[request[r].session].status \in {"unused", "live", "deleted"}
            BY <1>0, <1>1 DEF TypeOK, SessionRow
        <3>3. Live(request[r].session)
            BY <1>0, <1>1, <2>1, <3>1, <3>2, StepDeleted DEF Live
        <3>4. UserRow(r) \in messages
            BY <2>3, <3>3 DEF UnderWay
        <3> QED
            BY <1>0, <1>3, <2>1, <3>4, StepRemove
    <2> QED
        BY <1>1, <2>2, <2>3
<1> QED
    BY <1>2, <1>5, <1>6

-----------------------------------------------------------------------------
(* Turns are whole. *)

\* Rows of turns of requests that got as far as a COMMIT.
Written(rows) ==
    \A m \in rows : /\ m \in {UserRow(m.req), ReplyRow(m.req)}
                    /\ pc[m.req] \in {"streaming"} \cup Ended

Whole(rows) ==
    \A r \in Requests :
        /\ ReplyRow(r) \in rows => UserRow(r) \in rows
        /\ request[r].op = "send" /\ UserRow(r) \in rows => ReplyRow(r) \in rows

\* Stored turns are whole, and what a reader has taken of them stays so: the requests
\* they are from are past restamping them.
WholeTurns ==
    /\ UnderWay
    /\ Whole(messages)
    /\ \A q \in Requests : Written(handle[q].prompt) /\ Whole(handle[q].prompt)

\* Once a request has committed, its rows are what they were.
LEMMA RowsFixed ==
    ASSUME TypeOK, [Next]_vars, NEW r \in Requests, pc[r] # "owned"
    PROVE  UserRow(r)' = UserRow(r) /\ ReplyRow(r)' = ReplyRow(r)
BY StepFrame DEF UserRow, ReplyRow

\* Which turns of a request a step can add.
LEMMA StepTurns ==
    ASSUME TypeOK, [Next]_vars, NEW r \in Requests
    PROVE  \/ \A m \in messages' : m.req = r => m \in messages
           \/ /\ pc[r] = "stamped" /\ request[r].op = "stream"
              /\ messages' = messages \cup {UserRow(r)}
           \/ /\ pc[r] = "streaming" /\ Live(request[r].session)
              /\ messages' = messages \cup {ReplyRow(r)}
           \/ /\ pc[r] = "completing"
              /\ messages' = messages \cup {UserRow(r), ReplyRow(r)}
<1>1. ASSUME NEW q \in Requests, q # r,
             CommitUserTurn(q) \/ FinishStream(q) \/ FailStream(q) \/ CompleteSend(q)
      PROVE  \A m \in messages' : m.req = r => m \in messages
    BY <1>1 DEF CommitUserTurn, FinishStream, FailStream, PersistReply, CompleteSend,
                UserRow, ReplyRow
<1>2. CASE CommitUserTurn(r) \/ FinishStream(r) \/ FailStream(r) \/ CompleteSend(r)
    BY <1>2 DEF CommitUserTurn, FinishStream, FailStream, PersistReply, CompleteSend
<1>3. CASE \E q \in Requests :
             Begin(q) \/ RejectContent(q) \/ LoadSession(q) \/ LoadHistory(q) \/ ReturnHistory(q)
             \/ FlushUserTurn(q) \/ FailSend(q) \/ Delete(q) \/ Disconnect(q) \/ Die(q)
    BY <1>3 DEF Begin, RejectContent, LoadSession, LoadHistory, ReturnHistory, FlushUserTurn,
                FailSend, Delete, Disconnect, Die
<1>4. CASE \/ \E u \in Users, s \in Sessions, title \in {None, Given} : CreateSession(u, s, title)
           \/ Quiescent \/ UNCHANGED vars
    BY <1>4 DEF CreateSession, Quiescent, vars
<1> QED
    BY <1>1, <1>2, <1>3, <1>4 DEF Next, Serve

\* What is written and whole stays so while only its readers look at it.
LEMMA WholeWhileRead ==
    \A rows \in SUBSET MessageRow :
        TypeOK /\ [Next]_vars /\ Written(rows) /\ Whole(rows) =>
            /\ \A m \in rows : /\ m \in {UserRow(m.req)', ReplyRow(m.req)'}
                               /\ pc'[m.req] \in {"streaming"} \cup Ended
            /\ \A r \in Requests :
                  /\ ReplyRow(r)' \in rows => UserRow(r)' \in rows
                  /\ request'[r].op = "send" /\ UserRow(r)' \in rows => ReplyRow(r)' \in rows
<1> SUFFICES ASSUME NEW rows \in SUBSET MessageRow, TypeOK, [Next]_vars, Written(rows), Whole(rows)
             PROVE  /\ \A m \in rows : /\ m \in {UserRow(m.req)', ReplyRow(m.req)'}
                                       /\ pc'[m.req] \in {"streaming"} \cup Ended
                    /\ \A r \in Requests :
                          /\ ReplyRow(r)' \in rows => UserRow(r)' \in rows
                          /\ request'[r].op = "send" /\ UserRow(r)' \in rows
                                => ReplyRow(r)' \in rows
    OBVIOUS
<1>1. ASSUME NEW r \in Requests, pc[r] \in {"streaming"} \cup Ended
      PROVE  /\ UserRow(r)' = UserRow(r) /\ ReplyRow(r)' = ReplyRow(r)
             /\ pc'[r] \in {"streaming"} \cup Ended
             /\ request' = request
    <2>1. pc[r] # "owned" /\ pc[r] \in {"streaming"} \cup Ended
        BY <1>1 DEF Ended
    <2>2. pc'[r] \in {"streaming"} \cup Ended
        BY <2>1, StepFrame, StepStage DEF Ended
    <2> QED
        BY <2>1, <2>2, RowsFixed, StepFrame
<1>2. ASSUME NEW m \in rows
      PROVE  /\ m.req \in Requests
             /\ m \in {UserRow(m.req), ReplyRow(m.req)}
             /\ pc[m.req] \in {"streaming"} \cup Ended
    BY DEF Written, MessageRow
<1>3. ASSUME NEW m \in rows
      PROVE  m \in {UserRow(m.req)', ReplyRow(m.req)'} /\ pc'[m.req] \in {"streaming"} \cup Ended
    BY <1>1, <1>2
<1>4. ASSUME NEW r \in Requests, UserRow(r)' \in rows \/ ReplyRow(r)' \in rows
      PROVE  UserRow(r)' = UserRow(r) /\ ReplyRow(r)' = ReplyRow(r) /\ request' = request
    <2>1. PICK m \in rows : m.req = r
        BY <1>4 DEF UserRow, ReplyRow
    <2> QED
        BY <1>1, <1>2, <2>1
<1> QED
    BY <1>3, <1>4 DEF Whole

LEMMA WholeTurnsStep == IInv /\ WholeTurns /\ [Next]_vars => WholeTurns'
<1> SUFFICES ASSUME IInv, WholeTurns, [Next]_vars PROVE WholeTurns'
    OBVIOUS
<1>0. TypeOK /\ RowsHaveWriters
    BY DEF IInv
<1>1. UnderWay'
    BY UnderWayStep DEF WholeTurns
<1>2. Written(messages) /\ Whole(messages) /\ messages \in SUBSET MessageRow
    BY <1>0 DEF RowsHaveWriters, Written, WholeTurns, TypeOK
<1>3. Whole(messages)'
    <2> SUFFICES ASSUME NEW r \in Requests
                 PROVE  /\ ReplyRow(r)' \in messages' => UserRow(r)' \in messages'
                        /\ request'[r].op = "send" /\ UserRow(r)' \in messages'
                              => ReplyRow(r)' \in messages'
        BY DEF Whole
    <2>1. CASE \A m \in messages' : m.req = r => m \in messages
        <3>1. UserRow(r)'.req = r /\ ReplyRow(r)'.req = r /\ UserRow(r)'.session = ReplyRow(r)'.session
            BY DEF UserRow, ReplyRow
        <3>2. /\ ReplyRow(r)' \in messages => UserRow(r)' \in messages
              /\ request'[r].op = "send" /\ UserRow(r)' \in messages => ReplyRow(r)' \in messages
            BY <1>0, <1>2, WholeWhileRead
        <3>3. ASSUME ReplyRow(r)' \in messages, UserRow(r)' \in messages
              PROVE  ReplyRow(r)' \in messages' <=> UserRow(r)' \in messages'
            <4>1. \A m \in messages : m \notin messages' => list_messages(m.session) \cap messages' = {}
                BY <1>0, StepRemove
            <4> QED
                BY <3>1, <3>3, <4>1 DEF list_messages
        <3> QED
            BY <2>1, <3>1, <3>2, <3>3
    <2>2. CASE pc[r] \in {"stamped", "streaming", "completing"}
        <3>1. UserRow(r)' = UserRow(r) /\ ReplyRow(r)' = ReplyRow(r) /\ request' = request
            BY <1>0, <2>2, RowsFixed, StepFrame
        <3>2. UserRow(r) # ReplyRow(r)
            BY DEF UserRow, ReplyRow
        <3>3. pc[r] = "streaming" /\ Live(request[r].session) => UserRow(r) \in messages
            BY DEF WholeTurns, UnderWay
        <3> QED
            BY <1>0, <1>2, <2>1, <3>1, <3>2, <3>3, StepTurns DEF Whole
    <2> QED
        BY <1>0, <2>1, <2>2, StepTurns
<1>4. ASSUME NEW q \in Requests
      PROVE  Written(handle[q].prompt)' /\ Whole(handle[q].prompt)'
    <2> DEFINE s == request[q].session
    <2>1. handle'[q].prompt \in {handle[q].prompt, list_messages(s)}
        BY <1>0, StepFrame, StepStage
    <2>2. handle'[q].prompt \in SUBSET MessageRow
        BY <1>0, TypeStep DEF TypeOK, Handle
    <2>3. Written(list_messages(s)) /\ Whole(list_messages(s))
        BY <1>2 DEF list_messages, Written, Whole, UserRow, ReplyRow
    <2>4. Written(handle[q].prompt) /\ Whole(handle[q].prompt)
        BY DEF WholeTurns
    <2>5. \A rows \in {handle[q].prompt, list_messages(s)} : Written(rows) /\ Whole(rows)
        BY <2>3, <2>4
    <2>6. PICK rows \in SUBSET MessageRow : rows = handle'[q].prompt /\ Written(rows) /\ Whole(rows)
        BY <2>1, <2>2, <2>5
    <2>7. /\ \A m \in rows : /\ m \in {UserRow(m.req)', ReplyRow(m.req)'}
                             /\ pc'[m.req] \in {"streaming"} \cup Ended
          /\ \A r \in Requests :
                /\ ReplyRow(r)' \in rows => UserRow(r)' \in rows
                /\ request'[r].op = "send" /\ UserRow(r)' \in rows => ReplyRow(r)' \in rows
        BY <1>0, <2>6, WholeWhileRead
    <2> QED
        BY <2>6, <2>7 DEF Written, Whole
<1> QED
    BY <1>1, <1>3, <1>4 DEF WholeTurns

LEMMA WholeTurnsInit == Init => WholeTurns
BY DEF Init, WholeTurns, UnderWay, Whole, Written, NoHandle

\* Nobody is ever shown, now or in what a request has read, a reply without its user
\* turn, or half of a non-streaming send (send_message's single commit).
THEOREM NoHalfTurns == Spec => []TurnsAreWhole
<1>1. WholeTurns => TurnsAreWhole
    BY DEF WholeTurns, TurnsAreWhole, Whole
<1> QED
    BY <1>1, IInvHolds, WholeTurnsInit, WholeTurnsStep, PTL DEF Spec

-----------------------------------------------------------------------------
(* A session with turns has a title. *)

Titled ==
    /\ \A m \in messages : chat_sessions[m.session].title # None
    /\ \A r \in Requests : pc[r] \in Titling /\ handle[r].title # None =>
          chat_sessions[request[r].session].title # None

LEMMA TitledStep == IInv /\ WholeTurns /\ Titled /\ [Next]_vars => Titled'
<1> SUFFICES ASSUME IInv, WholeTurns, Titled, [Next]_vars PROVE Titled'
    OBVIOUS
<1>0. /\ TypeOK /\ RowsHaveWriters /\ NoOrphans /\ OwnerStays /\ UnderWay
      /\ messages \subseteq MessageRow /\ chat_sessions \in [Sessions -> SessionRow]
    BY DEF IInv, TypeOK, WholeTurns
<1>1. ASSUME NEW s \in Sessions, chat_sessions[s].status # "unused", chat_sessions[s].title # None
      PROVE  chat_sessions'[s].title # None
    BY <1>0, <1>1, StepTitle, TitleAssumption
<1>2. ASSUME NEW r \in Requests, pc'[r] \in Titling, handle'[r].title # None
      PROVE  chat_sessions'[request'[r].session].title # None
    <2>1. request' = request /\ request[r].session \in Sessions
        BY <1>0, StepFrame DEF TypeOK
    <2>2. CASE pc[r] \in Titling /\ handle'[r].title = handle[r].title
        BY <1>0, <1>1, <1>2, <2>1, <2>2 DEF Titled, OwnerStays, Titling, AtTurn
    <2> QED
        BY <1>0, <1>2, <2>1, <2>2, StepLoad
<1>3. ASSUME NEW m \in messages', m \in messages
      PROVE  chat_sessions'[m.session].title # None
    BY <1>0, <1>1, <1>3 DEF Titled, NoOrphans, Live, MessageRow
<1>4. ASSUME NEW m \in messages', m \notin messages
      PROVE  chat_sessions'[m.session].title # None
    <2>1. PICK q \in Requests : m.session = request[q].session /\ m.req = q
        BY <1>0, <1>4, StepInsert DEF UserRow, ReplyRow
    <2> DEFINE s == request[q].session
    <2>2. s \in Sessions
        BY <1>0 DEF TypeOK
    <2>3. CASE CommitUserTurn(q) \/ CompleteSend(q)
        <3>1. \E at : chat_sessions' = [chat_sessions EXCEPT ![s].title = TitleAfter(q),
                                                            ![s].updated_at = at]
            BY <1>4, <2>3 DEF CommitUserTurn, CompleteSend
        <3>2. chat_sessions'[s].title = TitleAfter(q)
            BY <1>0, <2>2, <3>1 DEF SessionRow
        <3>3. pc[q] \in Titling
            BY <2>3 DEF CommitUserTurn, CompleteSend, Titling
        <3> QED
            BY <2>1, <3>2, <3>3, TitleAssumption DEF TitleAfter, Titled
    <2>4. CASE pc[q] = "streaming" /\ Live(s)
        <3>1. UserRow(q) \in messages /\ UserRow(q).session = s
            BY <1>0, <2>4 DEF UnderWay, UserRow
        <3> QED
            BY <1>1, <2>1, <2>2, <2>4, <3>1 DEF Titled, Live
    <2>5. \/ CommitUserTurn(q) \/ CompleteSend(q)
          \/ pc[q] = "streaming" /\ Live(s)
        <3>1. ASSUME NEW r \in Requests, CommitUserTurn(r) \/ CompleteSend(r) PROVE r = q
            BY <1>4, <2>1, <3>1 DEF CommitUserTurn, CompleteSend, UserRow, ReplyRow
        <3>2. ASSUME NEW r \in Requests, FinishStream(r) \/ FailStream(r)
              PROVE  r = q /\ pc[r] = "streaming" /\ Live(request[r].session)
            BY <1>4, <2>1, <3>2 DEF FinishStream, FailStream, PersistReply, ReplyRow
        <3>3. CASE \E r \in Requests :
                     Begin(r) \/ RejectContent(r) \/ LoadSession(r) \/ LoadHistory(r)
                     \/ ReturnHistory(r) \/ FlushUserTurn(r) \/ FailSend(r) \/ Delete(r)
                     \/ Disconnect(r) \/ Die(r)
            BY <1>4, <3>3 DEF Begin, RejectContent, LoadSession, LoadHistory, ReturnHistory,
                              FlushUserTurn, FailSend, Delete, Disconnect, Die
        <3>4. CASE \/ \E u \in Users, t \in Sessions, title \in {None, Given} : CreateSession(u, t, title)
                   \/ Quiescent \/ UNCHANGED vars
            BY <1>4, <3>4 DEF CreateSession, Quiescent, vars
        <3> QED
            BY <3>1, <3>2, <3>3, <3>4 DEF Next, Serve
    <2> QED
        BY <2>3, <2>4, <2>5
<1> QED
    BY <1>2, <1>3, <1>4 DEF Titled

LEMMA TitledInit == Init => Titled
BY DEF Init, Titled, Titling

\* Only the SELECT of its session changes a request's copy of it.
LEMMA StepKeeps ==
    ASSUME TypeOK, [Next]_vars, NEW r \in Requests, pc[r] # "begun"
    PROVE  handle'[r].title = handle[r].title /\ handle'[r].updated_at = handle[r].updated_at
<1>0. handle \in [Requests -> Handle]
    BY DEF TypeOK
<1>1. CASE \E q \in Requests : LoadSession(q)
    BY <1>0, <1>1 DEF LoadSession
<1>2. CASE \E q \in Requests : ReturnHistory(q)
    BY <1>0, <1>2 DEF ReturnHistory, Handle
<1>3. CASE \E q \in Requests : LoadHistory(q)
    <2>1. PICK q \in Requests : \E base :
             handle' = [handle EXCEPT ![q].prompt = list_messages(request[q].session),
                                      ![q].base = base]
        BY <1>3 DEF LoadHistory
    <2> QED
        BY <1>0, <2>1 DEF Handle
<1>4. CASE \E q \in Requests :
             Begin(q) \/ RejectContent(q) \/ FlushUserTurn(q) \/ FailSend(q) \/ Disconnect(q) \/ Die(q)
             \/ CommitUserTurn(q) \/ FinishStream(q) \/ FailStream(q) \/ CompleteSend(q) \/ Delete(q)
    BY <1>4 DEF Begin, RejectContent, FlushUserTurn, FailSend, Disconnect, Die, CommitUserTurn,
                FinishStream, FailStream, PersistReply, CompleteSend, Delete
<1>5. CASE \/ \E u \in Users, s \in Sessions, title \in {None, Given} : CreateSession(u, s, title)
           \/ Quiescent \/ UNCHANGED vars
    BY <1>5 DEF CreateSession, Quiescent, vars
<1> QED
    BY <1>1, <1>2, <1>3, <1>4, <1>5 DEF Next, Serve

\* Whoever follows a turn of its session has loaded the session with a title.
TitledPast ==
    \A r \in Requests : pc[r] \in {"owned"} \cup AtTurn \/ UserRow(r) \in messages =>
        \A m \in list_messages(request[r].session) :
            m.req \in before[r] => handle[r].title # None

LEMMA TitledPastStep == IInv /\ Titled /\ TitledPast /\ [Next]_vars => TitledPast'
<1> SUFFICES ASSUME IInv, Titled, TitledPast, [Next]_vars, NEW r \in Requests,
                    (pc[r] \in {"owned"} \cup AtTurn \/ UserRow(r) \in messages)',
                    NEW m \in list_messages(request[r].session)', m.req \in before'[r]
             PROVE  handle'[r].title # None
    BY DEF TitledPast
<1>0. /\ TypeOK /\ PastIsOver /\ RowsHaveWriters /\ request' = request
      /\ m \in messages' /\ m.session = request[r].session
    BY StepFrame DEF IInv, list_messages
<1>1. pc[m.req] \in Ended
    BY <1>0, StepBegin DEF PastIsOver
<1>2. m \in list_messages(request[r].session)
    <2>1. ASSUME NEW q \in Requests, m \in {UserRow(q), ReplyRow(q)} PROVE m.req = q
        BY <2>1 DEF UserRow, ReplyRow
    <2> QED
        BY <1>0, <1>1, <2>1, StepInsert DEF Ended, list_messages
<1>3. CASE handle'[r].title = chat_sessions[request[r].session].title
    BY <1>2, <1>3 DEF Titled, list_messages
<1>4. CASE pc[r] \in {"owned"} \cup AtTurn \/ UserRow(r) \in messages
    <2>1. pc[r] \notin {"idle", "begun"}
        <3>1. UserRow(r).req = r
            BY DEF UserRow
        <3> QED
            BY <1>0, <1>4, <3>1 DEF RowsHaveWriters, AtTurn, Ended
    <2>2. before'[r] = before[r] /\ handle'[r].title = handle[r].title
        BY <1>0, <2>1, StepFrame, StepKeeps
    <2> QED
        BY <1>2, <1>4, <2>2 DEF TitledPast
<1>5. CASE pc'[r] \in Titling
    BY <1>0, <1>3, <1>4, <1>5, StepLoad DEF Titling, AtTurn
<1>6. CASE pc'[r] = "streaming"
    BY <1>0, <1>4, <1>6, StepStage DEF AtTurn
<1>7. CASE UserRow(r)' \in messages' /\ pc[r] \notin {"owned"} \cup AtTurn
    <2>1. UserRow(r)' = UserRow(r) /\ UserRow(r).req = r
        BY <1>0, <1>7, RowsFixed DEF UserRow
    <2>2. ASSUME NEW q \in Requests, UserRow(r) \in {UserRow(q), ReplyRow(q)} PROVE q = r
        BY <2>1, <2>2 DEF UserRow, ReplyRow
    <2>3. UserRow(r) \in messages
        BY <1>0, <1>7, <2>1, <2>2, StepInsert DEF AtTurn
    <2> QED
        BY <1>4, <2>3
<1> QED
    BY <1>4, <1>5, <1>6, <1>7 DEF Titling, AtTurn

LEMMA TitledPastInit == Init => TitledPast
BY DEF Init, TitledPast, AtTurn

-----------------------------------------------------------------------------
(* The time of a session, by which the list of sessions sorts.             *)
(*                                                                         *)
(* A turn that a session's time lags behind overlapped another turn, or    *)
(* its time is the one that the database's clock gave.  The invariant      *)
(* names the last turn to have moved the time, which is the other turn, or *)
(* the turn itself: nobody began after it and has written since.           *)

\* The copy of a session a request holds is the one it had, or as the row is now.
LEMMA StepCopy ==
    ASSUME TypeOK, [Next]_vars, NEW r \in Requests, pc'[r] \in Titling
    PROVE  \/ pc[r] \in Titling /\ handle'[r].updated_at = handle[r].updated_at
           \/ /\ handle'[r].updated_at = chat_sessions[request[r].session].updated_at
              /\ UNCHANGED chat_sessions
<1>0. handle \in [Requests -> Handle] /\ pc \in [Requests -> {"idle"} \cup InFlight \cup Ended]
    BY DEF TypeOK
<1> USE DEF Titling
<1>1. CASE \E q \in Requests : LoadSession(q)
    BY <1>0, <1>1 DEF LoadSession, Goto, Handle
<1>2. CASE \E q \in Requests : ReturnHistory(q)
    BY <1>0, <1>2 DEF ReturnHistory, Goto, Handle
<1>3. CASE \E q \in Requests : LoadHistory(q)
    <2>1. PICK q \in Requests : LoadHistory(q)
        BY <1>3
    <2>2. \E base : handle' = [handle EXCEPT ![q].prompt = list_messages(request[q].session),
                                             ![q].base = base]
        BY <2>1 DEF LoadHistory
    <2>3. handle'[r].updated_at = handle[r].updated_at
        BY <1>0, <2>2 DEF Handle
    <2> QED
        BY <1>0, <2>1, <2>3 DEF LoadHistory, Goto
<1>4. CASE \E q \in Requests :
             Begin(q) \/ RejectContent(q) \/ FlushUserTurn(q) \/ FailSend(q) \/ Disconnect(q) \/ Die(q)
    BY <1>0, <1>4 DEF Begin, RejectContent, FlushUserTurn, FailSend, Disconnect, Die, Goto
<1>5. CASE \E q \in Requests : CommitUserTurn(q) \/ FinishStream(q) \/ FailStream(q)
                               \/ CompleteSend(q) \/ Delete(q)
    BY <1>0, <1>5 DEF CommitUserTurn, FinishStream, FailStream, PersistReply, CompleteSend,
                      Delete, Goto
<1>6. CASE \/ \E u \in Users, s \in Sessions, title \in {None, Given} : CreateSession(u, s, title)
           \/ Quiescent \/ UNCHANGED vars
    BY <1>6 DEF CreateSession, Quiescent, vars
<1> QED
    BY <1>1, <1>2, <1>3, <1>4, <1>5, <1>6 DEF Next, Serve

\* A step leaves the time and the turns of a live session alone, or adds turns of one
\* request and moves the time up to them; unless that request's copy has their time,
\* and the time stays or is the database's.
Added(q, s, row) ==
    /\ pc[q] \in AtTurn /\ request[q].session = s /\ row.req = q /\ row.session = s
    /\ row \in messages' /\ messages \subseteq messages'
    /\ \A x \in messages' : x \in messages \/ (x.req = q /\ x.created_at <= row.created_at)
    /\ pc[q] = "streaming" => row.created_at = handle[q].base + 1
    /\ UNCHANGED <<request, before, handle>>
    /\ \/ chat_sessions'[s].updated_at >= row.created_at
       \/ /\ chat_sessions'[s].updated_at = chat_sessions[s].updated_at
          /\ pc[q] = "stamped" /\ row.created_at = handle[q].updated_at
       \/ TimedByDatabase(row)

LEMMA StepTime ==
    ASSUME TypeOK, [Next]_vars, NEW s \in Sessions, Live(s), Live(s)'
    PROVE  \/ /\ chat_sessions'[s].updated_at = chat_sessions[s].updated_at
              /\ \A m \in MessageRow : m.session = s => (m \in messages' <=> m \in messages)
           \/ \E q \in Requests, row \in MessageRow : Added(q, s, row)
<1>0. /\ chat_sessions \in [Sessions -> SessionRow] /\ chat_sessions[s] \in SessionRow
      /\ handle \in [Requests -> Handle] /\ messages \subseteq MessageRow
    BY DEF TypeOK
<1> DEFINE Alone == /\ chat_sessions'[s].updated_at = chat_sessions[s].updated_at
                    /\ \A m \in MessageRow : m.session = s => (m \in messages' <=> m \in messages)
<1>1. ASSUME NEW q \in Requests, CommitUserTurn(q)
      PROVE  Alone \/ \E row \in MessageRow : Added(q, s, row)
    <2>1. UserRow(q) \in MessageRow /\ handle[q] \in Handle
        BY <1>0, RowTypes
    <2>2. ASSUME NEW at \in BumpedTo(q), Live(request[q].session),
                 messages' = messages \cup {UserRow(q)},
                 chat_sessions' = [chat_sessions EXCEPT ![request[q].session].title = TitleAfter(q),
                                                        ![request[q].session].updated_at = at]
          PROVE  Alone \/ Added(q, s, UserRow(q))
        <3>1. CASE request[q].session # s
            BY <1>0, <2>2, <3>1 DEF UserRow
        <3>2. CASE request[q].session = s
            <4>1. chat_sessions'[s].updated_at = at
                BY <1>0, <2>2, <3>2 DEF SessionRow
            <4>2. /\ UserRow(q).req = q /\ UserRow(q).session = s
                  /\ UserRow(q).created_at = handle[q].base /\ handle[q].base \in Nat
                BY <2>1, <3>2 DEF UserRow, Handle
            <4>3. \/ at >= handle[q].base
                  \/ at = chat_sessions[s].updated_at /\ handle[q].base = handle[q].updated_at
                  \/ TimedByDatabase(UserRow(q))
                BY <2>1, <3>2, <4>2 DEF BumpedTo, TimedByDatabase, Handle
            <4> QED
                BY <1>1, <2>1, <2>2, <3>2, <4>1, <4>2, <4>3 DEF CommitUserTurn, Added, AtTurn
        <3> QED
            BY <3>1, <3>2
    <2>3. \/ messages' = messages /\ chat_sessions' = chat_sessions
          \/ /\ Live(request[q].session)
             /\ messages' = messages \cup {UserRow(q)}
             /\ \E at \in BumpedTo(q) :
                   chat_sessions' = [chat_sessions EXCEPT
                       ![request[q].session].title = TitleAfter(q),
                       ![request[q].session].updated_at = at]
        BY <1>1 DEF CommitUserTurn
    <2> QED
        BY <2>1, <2>2, <2>3
<1>2. ASSUME NEW q \in Requests, FinishStream(q) \/ FailStream(q)
      PROVE  Alone \/ \E row \in MessageRow : Added(q, s, row)
    <2>1. ReplyRow(q) \in MessageRow /\ handle[q] \in Handle
        BY <1>0, RowTypes
    <2>2. \/ messages' = messages /\ chat_sessions' = chat_sessions
          \/ /\ messages' = messages \cup {ReplyRow(q)}
             /\ chat_sessions' = [chat_sessions EXCEPT
                    ![request[q].session].updated_at = handle[q].base + 1]
             /\ pc[q] = "streaming" /\ UNCHANGED <<request, before, handle>>
        BY <1>2 DEF FinishStream, FailStream, PersistReply
    <2>3. CASE request[q].session # s
        BY <1>0, <2>2, <2>3 DEF ReplyRow
    <2>4. CASE request[q].session = s /\ messages' = messages \cup {ReplyRow(q)}
               /\ chat_sessions' = [chat_sessions EXCEPT
                    ![request[q].session].updated_at = handle[q].base + 1]
               /\ pc[q] = "streaming" /\ UNCHANGED <<request, before, handle>>
        <3>1. chat_sessions'[s].updated_at = handle[q].base + 1
            BY <1>0, <2>4 DEF SessionRow
        <3>2. /\ ReplyRow(q).req = q /\ ReplyRow(q).session = s
              /\ ReplyRow(q).created_at = handle[q].base + 1 /\ handle[q].base \in Nat
            BY <2>1, <2>4 DEF ReplyRow, Handle
        <3> QED
            BY <2>1, <2>4, <3>1, <3>2 DEF Added, AtTurn
    <2> QED
        BY <2>2, <2>3, <2>4
<1>3. ASSUME NEW q \in Requests, CompleteSend(q)
      PROVE  Alone \/ \E row \in MessageRow : Added(q, s, row)
    <2>1. ReplyRow(q) \in MessageRow /\ handle[q] \in Handle
        BY <1>0, RowTypes
    <2>2. CASE request[q].session # s
        BY <1>0, <1>3, <2>2 DEF CompleteSend, UserRow, ReplyRow
    <2>3. CASE request[q].session = s
        <3>1. chat_sessions'[s].updated_at = handle[q].base + 1
            BY <1>0, <1>3, <2>3 DEF CompleteSend, SessionRow
        <3>2. /\ ReplyRow(q).req = q /\ ReplyRow(q).session = s /\ UserRow(q).req = q
              /\ ReplyRow(q).created_at = handle[q].base + 1 /\ handle[q].base \in Nat
              /\ UserRow(q).created_at = handle[q].base
            BY <2>1, <2>3 DEF UserRow, ReplyRow, Handle
        <3>3. /\ messages' = messages \cup {UserRow(q), ReplyRow(q)} /\ pc[q] = "completing"
              /\ UNCHANGED <<request, before, handle>>
            BY <1>3 DEF CompleteSend
        <3> QED
            BY <2>1, <2>3, <3>1, <3>2, <3>3 DEF Added, AtTurn
    <2> QED
        BY <2>2, <2>3
<1>4. ASSUME NEW q \in Requests, Delete(q) PROVE Alone
    <2>1. request[q].session # s
        BY <1>0, <1>4 DEF Delete, Live, SessionRow
    <2> QED
        BY <1>0, <1>4, <2>1 DEF Delete, list_messages
<1>5. CASE \E q \in Requests :
             Begin(q) \/ RejectContent(q) \/ LoadSession(q) \/ LoadHistory(q) \/ ReturnHistory(q)
             \/ FlushUserTurn(q) \/ FailSend(q) \/ Disconnect(q) \/ Die(q)
    BY <1>5 DEF Begin, RejectContent, LoadSession, LoadHistory, ReturnHistory, FlushUserTurn,
                FailSend, Disconnect, Die
<1>6. ASSUME NEW u \in Users, NEW t \in Sessions, NEW title \in {None, Given},
             CreateSession(u, t, title)
      PROVE  Alone
    BY <1>0, <1>6 DEF CreateSession, Live
<1>7. CASE Quiescent \/ UNCHANGED vars
    BY <1>7 DEF Quiescent, vars
<1> QED
    BY <1>1, <1>2, <1>3, <1>4, <1>5, <1>6, <1>7 DEF Next, Serve

-----------------------------------------------------------------------------
(* Who moved the time of a session last. *)

\* A turn that the time of its session has reached, unless that is the database's, and
\* that nobody with a turn here has begun after, nor anybody still at work, unless with
\* a copy of the session no younger than the time.
LastBump(b, s) ==
    LET now == chat_sessions[s].updated_at
    IN  /\ b.created_at <= now \/ TimedByDatabase(b)
        /\ \A x \in list_messages(s) :
              b.req \notin before[x.req] /\ (x.req = b.req => x.created_at <= b.created_at)
        /\ \A r \in Requests : request[r].session = s /\ pc[r] \in Titling /\ b.req \in before[r] =>
              handle[r].updated_at <= now

UpToDate ==
    \A s \in Sessions : Live(s) =>
        \/ /\ list_messages(s) = {}
           /\ \A r \in Requests : request[r].session = s /\ pc[r] \in Titling =>
                 handle[r].updated_at <= chat_sessions[s].updated_at
        \/ \E b \in list_messages(s) : LastBump(b, s)

\* Whether a stored turn left its session's time to the database never changes.
LEMMA TimedStays ==
    ASSUME TypeOK, [Next]_vars, NEW m \in MessageRow, pc[m.req] \in {"streaming"} \cup Ended
    PROVE  TimedByDatabase(m)' <=> TimedByDatabase(m)
<1>1. m.req \in Requests /\ pc[m.req] # "owned" /\ pc[m.req] # "begun"
    BY DEF MessageRow, Ended
<1> QED
    BY <1>1, RowsFixed, StepKeeps DEF TimedByDatabase

LEMMA UpToDateStep == IInv /\ UpToDate /\ [Next]_vars => UpToDate'
<1> SUFFICES ASSUME IInv, UpToDate, [Next]_vars, NEW s \in Sessions, Live(s)'
             PROVE  \/ /\ list_messages(s)' = {}
                       /\ \A r \in Requests : request'[r].session = s /\ pc'[r] \in Titling =>
                             handle'[r].updated_at <= chat_sessions'[s].updated_at
                    \/ \E b \in list_messages(s)' : LastBump(b, s)'
    BY DEF UpToDate
<1>0. /\ TypeOK /\ TypeOK' /\ PastIsOver /\ RowsHaveWriters /\ NoOrphans /\ OwnerStays
      /\ messages \subseteq MessageRow /\ messages' \subseteq MessageRow
      /\ handle \in [Requests -> Handle] /\ handle' \in [Requests -> Handle]
      /\ chat_sessions \in [Sessions -> SessionRow] /\ chat_sessions' \in [Sessions -> SessionRow]
    BY TypeStep DEF IInv, TypeOK
<1>1. /\ \A r \in Requests : request'[r] = request[r]
      /\ chat_sessions[s].updated_at \in Nat /\ chat_sessions'[s].updated_at \in Nat
    BY <1>0, StepFrame DEF SessionRow
\* The copy of a request at work is no younger than a copy that was there, or than the row.
<1>2. ASSUME NEW r \in Requests, request[r].session = s, pc'[r] \in Titling
      PROVE  \/ pc[r] \in Titling /\ handle'[r].updated_at = handle[r].updated_at
             \/ handle'[r].updated_at = chat_sessions'[s].updated_at
    BY <1>0, <1>2, StepCopy
<1>3. CASE ~Live(s)
    <2>1. list_messages(s)' = {}
        <3>1. SUFFICES ASSUME NEW m \in messages', m.session = s PROVE FALSE
            BY DEF list_messages
        <3>2. m \notin messages
            BY <1>3, <3>1 DEF NoOrphans, IInv
        <3>3. chat_sessions'[s].status = chat_sessions[s].status
            BY <1>0, <3>2, StepInsert
        <3> QED
            BY <1>3, <3>3 DEF Live
    <2>2. ASSUME NEW r \in Requests, request[r].session = s, pc[r] \in Titling PROVE FALSE
        <3>1. chat_sessions[s].status = "deleted"
            BY <1>0, <1>3, <2>2 DEF OwnerStays, Titling, AtTurn, Live, SessionRow
        <3> QED
            BY <1>0, <3>1, StepDeleted DEF Live
    <2> QED
        BY <1>1, <1>2, <2>1, <2>2
<1>4. CASE /\ Live(s) /\ chat_sessions'[s].updated_at = chat_sessions[s].updated_at
           /\ \A m \in MessageRow : m.session = s => (m \in messages' <=> m \in messages)
    <2>1. list_messages(s)' = list_messages(s)
        BY <1>0, <1>4 DEF list_messages
    <2>2. CASE list_messages(s) = {} /\ \A r \in Requests :
                 request[r].session = s /\ pc[r] \in Titling =>
                     handle[r].updated_at <= chat_sessions[s].updated_at
        BY <1>1, <1>2, <1>4, <2>1, <2>2
    <2>3. ASSUME NEW b \in list_messages(s), LastBump(b, s)
          PROVE  b \in list_messages(s)' /\ LastBump(b, s)'
        <3>1. ASSUME NEW x \in list_messages(s)
              PROVE  b.req \notin before'[x.req] /\ (x.req = b.req => x.created_at <= b.created_at)
            <4>1. x.req \in Requests /\ pc[x.req] # "idle"
                BY <1>0 DEF list_messages, MessageRow, RowsHaveWriters, Ended
            <4> QED
                BY <1>0, <2>3, <4>1, StepFrame DEF LastBump
        <3>2. ASSUME NEW r \in Requests, request[r].session = s, pc'[r] \in Titling, b.req \in before'[r]
              PROVE  handle'[r].updated_at <= chat_sessions'[s].updated_at
            <4>1. CASE pc[r] \in Titling /\ handle'[r].updated_at = handle[r].updated_at
                <5>1. before'[r] = before[r]
                    BY <1>0, <4>1, StepFrame DEF Titling
                <5> QED
                    BY <1>4, <2>3, <3>2, <4>1, <5>1 DEF LastBump
            <4> QED
                BY <1>1, <1>2, <3>2, <4>1
        <3>3. b.created_at <= chat_sessions'[s].updated_at \/ TimedByDatabase(b)'
            BY <1>0, <1>4, <2>3, TimedStays DEF LastBump, list_messages, RowsHaveWriters
        <3> QED
            BY <1>1, <1>4, <2>1, <2>3, <3>1, <3>2, <3>3 DEF LastBump
    <2> QED
        BY <1>4, <2>2, <2>3 DEF UpToDate
<1>5. ASSUME Live(s), NEW q \in Requests, NEW row \in MessageRow, Added(q, s, row)
      PROVE  \E b \in list_messages(s)' : LastBump(b, s)'
    <2>1. pc[q] \notin Ended /\ before' = before /\ handle' = handle
        BY <1>5 DEF Added, AtTurn, Ended
    <2>2. \A r \in Requests : q \notin before'[r]
        BY <1>0, <2>1 DEF PastIsOver
    <2>3. /\ row.req = q /\ row \in list_messages(s)'
          /\ \A x \in list_messages(s)' : x \in list_messages(s) \/ (x.req = q /\ x.created_at <= row.created_at)
        BY <1>5 DEF Added, list_messages
    <2>4. CASE row.created_at <= chat_sessions'[s].updated_at \/ TimedByDatabase(row)'
        <3>1. ASSUME NEW x \in list_messages(s)', x.req = q
              PROVE  x.created_at <= row.created_at
            <4>1. CASE x \in list_messages(s)
                <5>1. x \in {UserRow(q), ReplyRow(q)} /\ pc[q] = "streaming"
                    BY <1>0, <3>1, <2>1, <4>1 DEF list_messages, RowsHaveWriters
                <5>2. row.created_at = handle[q].base + 1 /\ handle[q].base \in Nat
                    BY <1>0, <1>5, <5>1 DEF Added, Handle
                <5> QED
                    BY <5>1, <5>2 DEF UserRow, ReplyRow
            <4> QED
                BY <2>3, <3>1, <4>1
        <3>2. ASSUME NEW x \in list_messages(s)' PROVE x.req \in Requests
            BY <1>0 DEF list_messages, MessageRow
        <3> QED
            BY <1>1, <2>2, <2>3, <2>4, <3>1, <3>2 DEF LastBump
    <2>5. CASE ~(row.created_at <= chat_sessions'[s].updated_at) /\ ~TimedByDatabase(row)'
        <3>0. /\ chat_sessions'[s].updated_at = chat_sessions[s].updated_at
              /\ pc[q] = "stamped" /\ row.created_at = handle[q].updated_at
              /\ request[q].session = s /\ row.created_at \in Nat
            BY <1>1, <1>5, <2>5 DEF Added, MessageRow, TimedByDatabase, UserRow
        <3>1. ~(handle[q].updated_at <= chat_sessions[s].updated_at) /\ pc[q] \in Titling
            BY <2>5, <3>0 DEF Titling
        <3>2. PICK b \in list_messages(s) : LastBump(b, s)
            BY <1>5, <3>0, <3>1 DEF UpToDate
        <3>3. b.req \notin before[q]
            BY <3>0, <3>1, <3>2 DEF LastBump
        <3>4. b.req # q
            BY <1>0, <3>0, <3>2 DEF list_messages, RowsHaveWriters, Ended
        <3>5. b \in list_messages(s)'
            BY <1>5, <3>2 DEF Added, list_messages
        <3>6. \A x \in list_messages(s)' :
                 b.req \notin before'[x.req] /\ (x.req = b.req => x.created_at <= b.created_at)
            BY <2>1, <2>3, <3>2, <3>3, <3>4 DEF LastBump
        <3>7. ASSUME NEW r \in Requests, request[r].session = s, pc'[r] \in Titling, b.req \in before'[r]
              PROVE  handle'[r].updated_at <= chat_sessions'[s].updated_at
            BY <1>1, <1>2, <2>1, <3>0, <3>2, <3>7 DEF LastBump
        <3>8. b.created_at <= chat_sessions'[s].updated_at \/ TimedByDatabase(b)'
            BY <1>0, <1>5, <3>0, <3>2, TimedStays DEF LastBump, list_messages, RowsHaveWriters
        <3> QED
            BY <1>1, <3>5, <3>6, <3>7, <3>8 DEF LastBump
    <2> QED
        BY <2>4, <2>5
<1> QED
    BY <1>0, <1>3, <1>4, <1>5, StepTime

LEMMA UpToDateInit == Init => UpToDate
BY DEF Init, UpToDate, Live

\* The last turn to have moved the time is the one a turn it lags behind overlapped,
\* or that turn itself.
LEMMA LagsBeside == IInv /\ TitledPast /\ UpToDate => ListLagsOnlyUnderOverlap
<1> SUFFICES ASSUME IInv, TitledPast, UpToDate, NEW m \in messages,
                    ~(m.created_at <= chat_sessions[m.session].updated_at)
             PROVE  \/ \E w \in list_messages(m.session) :
                          /\ Overlap(w.req, m.req)
                          /\ \A x \in list_messages(m.session) :
                                ~({w.req, m.req} \subseteq before[x.req])
                    \/ /\ TimedByDatabase(m) /\ ReplyRow(m.req) \notin messages
                       /\ \A x \in list_messages(m.session) : m.req \notin before[x.req]
    BY DEF ListLagsOnlyUnderOverlap
<1>0. /\ m \in list_messages(m.session) /\ m.session \in Sessions /\ Live(m.session)
      /\ m.created_at \in Nat /\ chat_sessions[m.session].updated_at \in Nat
      /\ m.req \in Requests
    BY DEF IInv, TypeOK, MessageRow, SessionRow, NoOrphans, list_messages
<1>1. PICK w \in list_messages(m.session) : LastBump(w, m.session)
    BY <1>0 DEF UpToDate
<1>2. /\ w \in messages /\ w.session = m.session /\ w.created_at \in Nat /\ w.req \in Requests
      /\ w \in {UserRow(w.req), ReplyRow(w.req)} /\ m \in {UserRow(m.req), ReplyRow(m.req)}
    BY DEF list_messages, IInv, TypeOK, MessageRow, RowsHaveWriters
<1>3. CASE w.req # m.req /\ m.req \notin before[w.req]
    <2>1. w.req \notin before[m.req]
        BY <1>0, <1>1 DEF LastBump
    <2> QED
        BY <1>1, <1>3, <2>1 DEF LastBump, Overlap
<1>4. CASE w.created_at <= chat_sessions[m.session].updated_at
    <2>1. ~(m.created_at <= w.created_at)
        BY <1>0, <1>2, <1>4
    <2>2. w.req # m.req
        BY <1>0, <1>1, <2>1 DEF LastBump
    <2>3. m.req \notin before[w.req]
        BY <1>0, <1>2, <2>1, IInvOrders DEF RealTimeOrder
    <2> QED
        BY <1>3, <2>2, <2>3
<1>5. CASE TimedByDatabase(w)
    <2>1. w = UserRow(w.req) /\ handle[w.req].title = None /\ w.session = request[w.req].session
        BY <1>5 DEF TimedByDatabase, UserRow
    <2>2. m.req \notin before[w.req]
        BY <1>0, <1>2, <2>1 DEF TitledPast
    <2>3. CASE w.req = m.req
        <3>1. ReplyRow(m.req) \notin messages
            <4>1. /\ ReplyRow(m.req).req = w.req /\ ReplyRow(m.req).session = m.session
                  /\ ReplyRow(m.req).created_at = w.created_at + 1
                BY <2>1, <2>3, <1>2 DEF ReplyRow, UserRow
            <4> QED
                BY <1>1, <1>2, <4>1 DEF LastBump, list_messages
        <3>2. m = w
            BY <1>0, <1>2, <2>1, <2>3, <3>1
        <3> QED
            BY <1>1, <1>5, <3>1, <3>2 DEF LastBump
    <2> QED
        BY <1>3, <2>2, <2>3
<1> QED
    BY <1>1, <1>4, <1>5 DEF LastBump

\* A session's time lags behind a turn only if that turn overlapped another one, and
\* only until a turn that follows both is stored; or if it is the database's, and only
\* until the turn's reply or a turn that follows it is stored (_save_user_turn,
\* _persist_assistant, onupdate).
THEOREM ListLagsBeside == Spec => []ListLagsOnlyUnderOverlap
BY WholeTurnsInit, TitledInit, TitledPastInit, UpToDateInit, WholeTurnsStep, TitledStep,
   TitledPastStep, UpToDateStep, LagsBeside, IInvHolds, PTL DEF Spec

==============================================================================
