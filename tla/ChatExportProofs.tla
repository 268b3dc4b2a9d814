-------------------------- MODULE ChatExportProofs ---------------------------
(***************************************************************************)
(* Proofs about the export beside the chat, for any numbers of users,      *)
(* sessions and requests, any clock and any size of a batch.               *)
(*                                                                         *)
(* Every step of the composition is a step of the chat or leaves the chat  *)
(* alone, so what is proved of ChatTurns holds here too; the rest follows  *)
(* the export from one SELECT to the next.                                 *)
(***************************************************************************)
EXTENDS ChatExport, ChatTurnsProofs

-----------------------------------------------------------------------------
(* What a step can do to the chat and to the export. *)

Chatting == IInv /\ WholeTurns /\ Titled /\ TitledPast /\ UpToDate

LEMMA ChatStep == ExportTypeOK /\ [ExportNext]_exportVars => [Next]_vars
<1> SUFFICES ASSUME ExportTypeOK, [ExportNext]_exportVars PROVE [Next]_vars
    OBVIOUS
<1>1. accounts \subseteq Users
    BY DEF ExportTypeOK
<1>2. CASE Chat
    BY <1>1, <1>2 DEF Chat, Next
<1>3. CASE ~Chat
    BY <1>3 DEF ExportNext, exportVars, vars, CreateAccount, Authorise, ListAccounts,
                ListSessions, LoadMessages, FailExport, ExportQuiescent
<1> QED
    BY <1>2, <1>3

LEMMA ChattingStep ==
    Chatting /\ ExportTypeOK /\ [ExportNext]_exportVars => Chatting' /\ [Next]_vars
BY ChatStep, IInvStep, WholeTurnsStep, TitledStep, TitledPastStep, UpToDateStep DEF Chatting

\* The chat goes on, or an account is created, and the export stands still; or the
\* export moves, and the chat stands still.
LEMMA EitherMoves ==
    ASSUME [ExportNext]_exportVars
    PROVE  \/ export' = export /\ accounts \subseteq accounts'
           \/ /\ UNCHANGED <<vars, accounts>>
              /\ Authorise \/ ListAccounts \/ ListSessions \/ LoadMessages \/ FailExport
BY DEF ExportNext, exportVars, CreateAccount, Chat, Authorise, ListAccounts, ListSessions,
       LoadMessages, FailExport, ExportQuiescent

-----------------------------------------------------------------------------
(* Type correctness. *)

LEMMA ExportTypeStep ==
    Chatting /\ ExportTypeOK /\ [ExportNext]_exportVars => ExportTypeOK'
<1> SUFFICES ASSUME Chatting, ExportTypeOK, [ExportNext]_exportVars PROVE ExportTypeOK'
    OBVIOUS
<1>0. TypeOK
    BY DEF Chatting, IInv
<1> USE DEF ExportTypeOK, Export, ExportInFlight, ExportEnded
<1>1. ASSUME NEW u \in Users, CreateAccount(u) PROVE ExportTypeOK'
    BY <1>1 DEF CreateAccount
<1>2. CASE Chat
    BY <1>2 DEF Chat
<1>3. CASE Authorise
    <2>1. PICK stage \in {"begun", "refused"} :
            export' = [export EXCEPT !.stage = stage, !.past = {r \in Requests : pc[r] \in Ended},
                                     !.known = {s \in Sessions : Live(s)}]
        BY <1>3 DEF Authorise
    <2> DEFINE past == {r \in Requests : pc[r] \in Ended}
               known == {s \in Sessions : Live(s)}
    <2>2. past \in SUBSET Requests /\ known \in SUBSET Sessions
        OBVIOUS
    <2> HIDE DEF past, known
    <2>3. export' = [export EXCEPT !.stage = stage, !.past = past, !.known = known]
        BY <2>1 DEF past, known
    <2> QED
        BY <1>3, <2>2, <2>3 DEF Authorise
<1>4. CASE ListAccounts
    BY <1>4 DEF ListAccounts
<1>5. CASE ListSessions
    <2>1. \A s \in Sessions : /\ chat_sessions[s].user_id \in Users \cup {None}
                              /\ chat_sessions[s].title \in Titles
                              /\ chat_sessions[s].updated_at \in Nat
        BY <1>0 DEF TypeOK, SessionRow
    <2>2. SessionsNow \subseteq Loaded
        BY <2>1 DEF SessionsNow, Loaded
    <2> QED
        BY <1>5, <2>2 DEF ListSessions, StageAfter
<1>6. CASE LoadMessages
    <2>1. messages \subseteq MessageRow
        BY <1>0 DEF TypeOK
    <2>2. PICK batch \in (SUBSET export.unread) \ {{}} :
            /\ Cardinality(batch) <= Batch
            /\ export' = [export EXCEPT !.stage = StageAfter(export.unread \ batch),
                                        !.unread = @ \ batch,
                                        !.rows = @ \cup {m \in messages : m.session \in batch}]
        BY <1>6, Zenon DEF LoadMessages
    <2> DEFINE later == StageAfter(export.unread \ batch)
               left == export.unread \ batch
               read == {m \in messages : m.session \in batch}
    <2>3. /\ later \in {"loading", "done"} /\ left \in SUBSET Sessions
          /\ read \in SUBSET MessageRow
        BY <2>1 DEF StageAfter
    <2>4. export' = [export EXCEPT !.stage = later, !.unread = left, !.rows = @ \cup read]
        BY <2>2
    <2> HIDE DEF later, left, read
    <2> QED
        BY <1>6, <2>3, <2>4 DEF LoadMessages
<1>7. CASE FailExport
    BY <1>7 DEF FailExport, NoExport
<1>8. CASE ExportQuiescent \/ UNCHANGED exportVars
    BY <1>8 DEF ExportQuiescent, exportVars
<1> QED
    BY <1>1, <1>2, <1>3, <1>4, <1>5, <1>6, <1>7, <1>8 DEF ExportNext

LEMMA ExportInitOK == ExportInit => Chatting /\ ExportTypeOK
BY IInvInit, WholeTurnsInit, TitledInit, TitledPastInit, UpToDateInit
DEF ExportInit, Chatting, ExportTypeOK, Export, ExportInFlight, ExportEnded, NoExport

LEMMA ChattingHolds == ExportSpec => [](Chatting /\ ExportTypeOK)
BY ExportInitOK, ChattingStep, ExportTypeStep, PTL DEF ExportSpec

\* What the SELECTs return, and what the export makes of it, keeps its type: every
\* session of the export has its row's columns, and every message is a stored one.
THEOREM ExportTypeCorrect == ExportSpec => []ExportTypeOK
BY ChattingHolds, PTL

-----------------------------------------------------------------------------
(* What has been read, and whose it is. *)

\* What the SELECTs have returned are whole turns, and sessions keep their owners.
ReadsAreWhole ==
    /\ Written(export.rows) /\ Whole(export.rows)
    /\ \A e \in export.sessions :
          chat_sessions[e.id].status # "unused" /\ chat_sessions[e.id].user_id = e.user_id
    /\ \A m \in export.rows :
          /\ chat_sessions[m.session].status # "unused"
          /\ chat_sessions[m.session].user_id = request[m.req].actor

LEMMA ReadsAreWholeStep ==
    Chatting /\ ExportTypeOK /\ ReadsAreWhole /\ [ExportNext]_exportVars => ReadsAreWhole'
<1> SUFFICES ASSUME Chatting, ExportTypeOK, ReadsAreWhole, [ExportNext]_exportVars
             PROVE  ReadsAreWhole'
    OBVIOUS
<1>0. TypeOK /\ RowsHaveWriters /\ NoOrphans /\ OwnerOnly /\ WholeTurns /\ [Next]_vars
    BY ChatStep DEF Chatting, IInv
<1>1. export.sessions \subseteq Loaded /\ export.rows \in SUBSET MessageRow
    BY DEF ExportTypeOK, Export
<1>2. CASE export' = export /\ accounts \subseteq accounts'
    <2>1. Written(export.rows) /\ Whole(export.rows)
        BY DEF ReadsAreWhole
    <2>2. Written(export.rows)' /\ Whole(export.rows)'
        <3>1. PICK rows \in SUBSET MessageRow : rows = export.rows
            BY <1>1
        <3>2. rows = export'.rows /\ Written(rows) /\ Whole(rows)
            BY <1>2, <2>1, <3>1
        <3>3. /\ \A m \in rows : /\ m \in {UserRow(m.req)', ReplyRow(m.req)'}
                                 /\ pc'[m.req] \in {"streaming"} \cup Ended
              /\ \A r \in Requests :
                    /\ ReplyRow(r)' \in rows => UserRow(r)' \in rows
                    /\ request'[r].op = "send" /\ UserRow(r)' \in rows => ReplyRow(r)' \in rows
            BY <1>0, <3>2, WholeWhileRead
        <3> QED
            BY <3>2, <3>3 DEF Written, Whole
    <2>3. ASSUME NEW e \in export'.sessions
          PROVE  /\ chat_sessions'[e.id].status # "unused"
                 /\ chat_sessions'[e.id].user_id = e.user_id
        <3>1. e \in export.sessions /\ e.id \in Sessions
            BY <1>1, <1>2 DEF Loaded
        <3> QED
            BY <1>0, <3>1, StepSession DEF ReadsAreWhole
    <2>4. ASSUME NEW m \in export'.rows
          PROVE  /\ chat_sessions'[m.session].status # "unused"
                 /\ chat_sessions'[m.session].user_id = request'[m.req].actor
        <3>1. m \in export.rows /\ m.session \in Sessions /\ m.req \in Requests
            BY <1>1, <1>2 DEF MessageRow
        <3> QED
            BY <1>0, <3>1, StepSession, StepFrame DEF ReadsAreWhole
    <2> QED
        BY <2>2, <2>3, <2>4 DEF ReadsAreWhole
<1>3. CASE UNCHANGED <<vars, accounts>> /\ (Authorise \/ ListAccounts \/ FailExport)
    <2>1. \/ export'.rows = export.rows /\ export'.sessions = export.sessions
          \/ export'.rows = {} /\ export'.sessions = {}
        <3>1. CASE Authorise
            BY <3>1 DEF Authorise
        <3>2. CASE ListAccounts
            BY <3>2 DEF ListAccounts
        <3>3. CASE FailExport
            BY <3>3 DEF FailExport, NoExport
        <3> QED
            BY <1>3, <3>1, <3>2, <3>3
    <2> QED
        BY <1>3, <2>1 DEF ReadsAreWhole, Written, Whole, UserRow, ReplyRow, vars
<1>4. CASE UNCHANGED <<vars, accounts>> /\ ListSessions
    <2>1. export'.rows = export.rows /\ export'.sessions = SessionsNow
        BY <1>4 DEF ListSessions
    <2>2. \A e \in SessionsNow :
            chat_sessions[e.id].status # "unused" /\ chat_sessions[e.id].user_id = e.user_id
        BY DEF SessionsNow, Live
    <2> QED
        BY <1>4, <2>1, <2>2 DEF ReadsAreWhole, Written, Whole, UserRow, ReplyRow, vars
<1>5. CASE UNCHANGED <<vars, accounts>> /\ LoadMessages
    <2>1. PICK batch \in SUBSET export.unread :
            /\ export'.rows = export.rows \cup {m \in messages : m.session \in batch}
            /\ export'.sessions = export.sessions
        BY <1>5 DEF LoadMessages
    <2> DEFINE read == {m \in messages : m.session \in batch}
    <2>2. Written(read) /\ Whole(read)
        BY <1>0 DEF RowsHaveWriters, WholeTurns, Written, Whole, UserRow, ReplyRow
    <2>3. Written(export.rows \cup read) /\ Whole(export.rows \cup read)
        BY <2>2 DEF ReadsAreWhole, Written, Whole
    <2>4. \A m \in read : /\ chat_sessions[m.session].status # "unused"
                         /\ chat_sessions[m.session].user_id = request[m.req].actor
        BY <1>0 DEF NoOrphans, OwnerOnly, Live
    <2> HIDE DEF read
    <2>5. export'.rows = export.rows \cup read
        BY <2>1 DEF read
    <2> QED
        BY <1>5, <2>1, <2>3, <2>4, <2>5 DEF ReadsAreWhole, Written, Whole, UserRow, ReplyRow, vars
<1> QED
    BY <1>2, <1>3, <1>4, <1>5, EitherMoves

\* An export never has a reply without its user turn, half of a non-streaming send, or
\* a turn under somebody other than its author (list_all_sessions_with_messages).
THEOREM ExportsHaveWholeTurns == ExportSpec => []ExportedTurnsAreWhole
<1>1. ExportInit => ReadsAreWhole
    BY DEF ExportInit, ReadsAreWhole, NoExport, Written, Whole
<1>2. ReadsAreWhole => ExportedTurnsAreWhole
    <2> SUFFICES ASSUME ReadsAreWhole PROVE ExportedTurnsAreWhole
        OBVIOUS
    <2>1. ASSUME NEW r \in Requests
          PROVE  /\ ReplyRow(r) \in DumpedRows => UserRow(r) \in DumpedRows
                 /\ request[r].op = "send" /\ UserRow(r) \in DumpedRows => ReplyRow(r) \in DumpedRows
        <3>1. UserRow(r).session = ReplyRow(r).session
            BY DEF UserRow, ReplyRow
        <3> QED
            BY <3>1 DEF ReadsAreWhole, Whole, DumpedRows
    <2>2. ASSUME NEW e \in Dumped, NEW m \in DumpedRows, m.session = e.id
          PROVE  e.user_id = request[m.req].actor
        BY <2>2 DEF ReadsAreWhole, Dumped, DumpedRows
    <2> QED
        BY <2>1, <2>2 DEF ExportedTurnsAreWhole
<1> QED
    BY <1>1, <1>2, ChattingHolds, ReadsAreWholeStep, PTL DEF ExportSpec

-----------------------------------------------------------------------------
(* What was there when the export began. *)

Asked == {"idle", "begun", "refused", "failed"}
Read == {"loading", "done"}

\* A session has an owner with an account, and stays away once its owner deleted it.
Housed ==
    /\ \A s \in Sessions : chat_sessions[s].status # "unused" => chat_sessions[s].user_id \in accounts
    /\ \A r \in Requests : request[r].op = "delete" /\ pc[r] = "replied" =>
          chat_sessions[request[r].session].status = "deleted"

\* How far the export has followed what it found when it began: the owners of those
\* sessions, then the sessions, then the turns, which are read or still to come.
Followed ==
    /\ export.stage = "idle" => export.sessions = {}
    /\ export.stage = "done" => export.unread = {}
    /\ \A r \in export.past : pc[r] \in Ended
    /\ \A s \in export.known : chat_sessions[s].status # "unused"
    /\ \A m \in messages : m.req \in export.past => m.session \in export.known
    /\ export.stage \notin Asked =>
          \A s \in export.known : chat_sessions[s].user_id \in export.roster
    /\ export.stage \in Read =>
          /\ \A s \in export.known : Live(s) => \E e \in export.sessions : e.id = s
          /\ \A m \in messages : m.req \in export.past =>
                m.session \in export.unread \/ m \in export.rows
    /\ \A r \in export.past : request[r].op = "delete" /\ pc[r] = "replied" =>
          \A e \in export.sessions : e.id # request[r].session

\* A session comes into being for somebody with an account.
LEMMA StepOpens ==
    ASSUME IInv, ExportTypeOK, [ExportNext]_exportVars, NEW s \in Sessions,
           chat_sessions[s].status = "unused", chat_sessions'[s].status # "unused"
    PROVE  chat_sessions'[s].user_id \in accounts
<1>0. TypeOK /\ OwnerStays /\ chat_sessions \in [Sessions -> SessionRow]
    BY DEF IInv, TypeOK
<1>1. ASSUME NEW u \in accounts, NEW t \in Sessions, NEW title \in {None, Given},
             CreateSession(u, t, title)
      PROVE  chat_sessions'[s].user_id \in accounts
    BY <1>0, <1>1 DEF CreateSession
<1>2. ASSUME NEW r \in Requests, CommitUserTurn(r) \/ CompleteSend(r) PROVE FALSE
    BY <1>0, <1>2, TurnUpdateKeeps
<1>3. ASSUME NEW r \in Requests, FinishStream(r) \/ FailStream(r) PROVE FALSE
    BY <1>0, <1>3 DEF FinishStream, FailStream, PersistReply, SessionRow
<1>4. ASSUME NEW r \in Requests, Delete(r) PROVE FALSE
    <2>1. chat_sessions[request[r].session].status # "unused"
        BY <1>0, <1>4 DEF Delete, OwnerStays
    <2> QED
        BY <1>0, <1>4, <2>1 DEF Delete, SessionRow
<1>5. ASSUME NEW r \in Requests,
             Begin(r) \/ RejectContent(r) \/ LoadSession(r) \/ LoadHistory(r) \/ ReturnHistory(r)
             \/ FlushUserTurn(r) \/ FailSend(r) \/ Disconnect(r) \/ Die(r)
      PROVE  FALSE
    BY <1>5 DEF Begin, RejectContent, LoadSession, LoadHistory, ReturnHistory, FlushUserTurn,
                FailSend, Disconnect, Die
<1>6. CASE Chat
    BY <1>1, <1>2, <1>3, <1>4, <1>5, <1>6 DEF Chat, Serve
<1>7. CASE ~Chat
    BY <1>7 DEF ExportNext, exportVars, vars, CreateAccount, Authorise, ListAccounts,
                ListSessions, LoadMessages, FailExport, ExportQuiescent
<1> QED
    BY <1>6, <1>7

\* A DELETE that is answered has deleted its session.
LEMMA StepDeleteAnswered ==
    ASSUME IInv, [Next]_vars, NEW r \in Requests, request[r].op = "delete",
           pc[r] # "replied", pc'[r] = "replied"
    PROVE  chat_sessions'[request[r].session].status = "deleted"
<1>0. TypeOK /\ RowsHaveWriters /\ pc \in [Requests -> {"idle"} \cup InFlight \cup Ended]
      /\ chat_sessions \in [Sessions -> SessionRow] /\ request[r].session \in Sessions
    BY DEF IInv, TypeOK
<1>1. pc[r] \notin {"stamped", "streaming", "completing"}
    BY <1>0 DEF RowsHaveWriters, AtTurn
<1>2. CASE Delete(r)
    BY <1>0, <1>2 DEF Delete, SessionRow
<1>3. CASE \E q \in Requests : Delete(q) /\ q # r
    BY <1>0, <1>3 DEF Delete, Goto
<1>4. CASE \E q \in Requests : CommitUserTurn(q) \/ CompleteSend(q)
    BY <1>0, <1>1, <1>4 DEF CommitUserTurn, CompleteSend, Goto
<1>5. CASE \E q \in Requests : FinishStream(q) \/ FailStream(q)
    BY <1>0, <1>1, <1>5 DEF FinishStream, FailStream, PersistReply, Goto
<1>6. CASE \E q \in Requests : LoadSession(q) \/ LoadHistory(q) \/ ReturnHistory(q)
    BY <1>0, <1>6 DEF LoadSession, LoadHistory, ReturnHistory, Goto
<1>7. CASE \E q \in Requests : Begin(q) \/ RejectContent(q) \/ FlushUserTurn(q) \/ FailSend(q)
                                \/ Disconnect(q) \/ Die(q)
    BY <1>0, <1>7 DEF Begin, RejectContent, FlushUserTurn, FailSend, Disconnect, Die, Goto
<1>8. CASE \/ \E u \in Users, s \in Sessions, title \in {None, Given} : CreateSession(u, s, title)
           \/ Quiescent \/ UNCHANGED vars
    BY <1>8 DEF CreateSession, Quiescent, vars
<1> QED
    BY <1>2, <1>3, <1>4, <1>5, <1>6, <1>7, <1>8 DEF Next, Serve

LEMMA HousedStep ==
    Chatting /\ ExportTypeOK /\ Housed /\ [ExportNext]_exportVars => Housed'
<1> SUFFICES ASSUME Chatting, ExportTypeOK, Housed, [ExportNext]_exportVars PROVE Housed'
    OBVIOUS
<1>0. IInv /\ TypeOK /\ [Next]_vars /\ accounts \subseteq accounts'
    BY ChatStep, EitherMoves DEF Chatting, IInv
<1>1. ASSUME NEW s \in Sessions, chat_sessions'[s].status # "unused"
      PROVE  chat_sessions'[s].user_id \in accounts'
    BY <1>0, <1>1, StepOpens, StepSession DEF Housed
<1>2. ASSUME NEW r \in Requests, request'[r].op = "delete", pc'[r] = "replied"
      PROVE  chat_sessions'[request'[r].session].status = "deleted"
    <2>1. request' = request /\ request[r].session \in Sessions
        BY <1>0, StepFrame DEF TypeOK
    <2> QED
        BY <1>0, <1>2, <2>1, StepDeleteAnswered, StepDeleted DEF Housed
<1> QED
    BY <1>1, <1>2 DEF Housed

LEMMA FollowedStep ==
    Chatting /\ ExportTypeOK /\ Housed /\ Followed /\ [ExportNext]_exportVars => Followed'
<1> SUFFICES ASSUME Chatting, ExportTypeOK, Housed, Followed, [ExportNext]_exportVars
             PROVE  Followed'
    OBVIOUS
<1>0. TypeOK /\ NoOrphans /\ [Next]_vars
    BY ChatStep DEF Chatting, IInv
<1>1. CASE export' = export /\ accounts \subseteq accounts'
    <2>1. export'.past \subseteq Requests /\ export'.known \subseteq Sessions
        BY <1>1 DEF ExportTypeOK, Export
    <2>2. ASSUME NEW r \in export'.past PROVE pc'[r] \in Ended /\ pc'[r] = pc[r] /\ request' = request
        BY <1>0, <1>1, <2>1, StepFrame DEF Followed
    <2>3. ASSUME NEW s \in export'.known
          PROVE  /\ chat_sessions'[s].status # "unused"
                 /\ chat_sessions'[s].user_id = chat_sessions[s].user_id
                 /\ Live(s)' => Live(s)
        <3>1. s \in Sessions /\ chat_sessions[s].status \in {"live", "deleted"}
            BY <1>0, <1>1, <2>1 DEF Followed, TypeOK, SessionRow
        <3> QED
            BY <1>0, <3>1, StepSession, StepDeleted DEF Live
    <2>4. ASSUME NEW m \in messages', m.req \in export'.past PROVE m \in messages
        <3>1. SUFFICES ASSUME m \notin messages PROVE FALSE
            OBVIOUS
        <3>2. m.req \in Requests /\ pc[m.req] \in {"stamped", "streaming", "completing"}
            BY <1>0, <3>1, StepInsert DEF UserRow, ReplyRow
        <3> QED
            BY <1>1, <2>4, <3>2 DEF Followed, Ended
    <2> QED
        BY <1>1, <2>2, <2>3, <2>4 DEF Followed
<1>2. CASE UNCHANGED <<vars, accounts>> /\ Authorise
    <2>1. /\ export.stage = "idle" /\ export'.stage \in {"begun", "refused"}
          /\ export'.sessions = export.sessions
          /\ export'.past = {r \in Requests : pc[r] \in Ended}
          /\ export'.known = {s \in Sessions : Live(s)}
        BY <1>2 DEF Authorise
    <2>2. export'.sessions = {}
        BY <2>1 DEF Followed
    <2>3. \A m \in messages : m.session \in export'.known
        BY <1>0, <2>1 DEF NoOrphans, TypeOK, MessageRow
    <2> QED
        BY <1>2, <2>1, <2>2, <2>3 DEF Followed, Asked, Read, Live, vars
<1>3. CASE UNCHANGED <<vars, accounts>> /\ ListAccounts
    <2>1. /\ export'.stage = "roster_read" /\ export'.roster = accounts
          /\ export'.sessions = export.sessions /\ export'.past = export.past
          /\ export'.known = export.known
        BY <1>3 DEF ListAccounts
    <2>2. \A s \in export.known : chat_sessions[s].user_id \in accounts
        BY DEF Followed, Housed, ExportTypeOK, Export
    <2> QED
        BY <1>3, <2>1, <2>2 DEF Followed, Asked, Read, vars
<1>4. CASE UNCHANGED <<vars, accounts>> /\ ListSessions
    <2> DEFINE live == {s \in Sessions : Live(s)}
    <2>1. /\ export.stage = "roster_read" /\ export'.stage = StageAfter(live)
          /\ export'.sessions = SessionsNow /\ export'.unread = live
          /\ export'.roster = export.roster /\ export'.past = export.past
          /\ export'.known = export.known
        BY <1>4 DEF ListSessions
    <2>2. /\ \A s \in live : \E e \in SessionsNow : e.id = s
          /\ \A e \in SessionsNow : e.id \in live
        <3> DEFINE row(s) == [id |-> s, user_id |-> chat_sessions[s].user_id,
                              title |-> chat_sessions[s].title,
                              updated_at |-> chat_sessions[s].updated_at]
        <3>1. \A s : row(s).id = s
            OBVIOUS
        <3>2. SessionsNow = {row(s) : s \in live}
            BY DEF SessionsNow
        <3> HIDE DEF row, live
        <3> QED
            BY <3>1, <3>2
    <2>3. \A m \in messages : m.session \in live
        BY <1>0 DEF NoOrphans, TypeOK, MessageRow
    <2>4. \A s \in export.known : Live(s) => s \in live
        BY DEF ExportTypeOK, Export
    <2>5. \A s \in live : chat_sessions[s].status # "deleted"
        BY DEF Live
    <2>6. /\ export'.stage \in Read
          /\ export'.stage = "done" => live = {}
        BY <2>1 DEF StageAfter, Read
    <2>7. /\ \A r \in export.past : pc[r] \in Ended /\ r \in Requests
          /\ \A s \in export.known : chat_sessions[s].status # "unused"
          /\ \A m \in messages : m.req \in export.past => m.session \in export.known
          /\ \A s \in export.known : chat_sessions[s].user_id \in export.roster
        BY <2>1 DEF Followed, Asked, ExportTypeOK, Export
    <2> HIDE DEF live
    <2>8. ASSUME NEW r \in export.past, request[r].op = "delete", pc[r] = "replied",
                 NEW e \in SessionsNow
          PROVE  e.id # request[r].session
        BY <2>2, <2>5, <2>7, <2>8 DEF Housed
    <2>9. UNCHANGED <<chat_sessions, messages, request, pc>>
        BY <1>4 DEF vars
    <2>10. export'.stage # "idle"
        BY <2>6 DEF Read
    <2> QED
        BY <2>1, <2>2, <2>3, <2>4, <2>6, <2>7, <2>8, <2>9, <2>10 DEF Followed, Live
<1>5. CASE UNCHANGED <<vars, accounts>> /\ LoadMessages
    <2>0. PICK batch \in SUBSET export.unread :
            export' = [export EXCEPT !.stage = StageAfter(export.unread \ batch),
                                     !.unread = export.unread \ batch,
                                     !.rows = @ \cup {m \in messages : m.session \in batch}]
        BY <1>5 DEF LoadMessages
    <2>1. /\ export.stage = "loading" /\ export'.stage = StageAfter(export.unread \ batch)
          /\ export'.unread = export.unread \ batch
          /\ export'.rows = export.rows \cup {m \in messages : m.session \in batch}
          /\ export'.sessions = export.sessions
          /\ export'.roster = export.roster /\ export'.past = export.past
          /\ export'.known = export.known
        <3>1. export.stage = "loading"
            BY <1>5 DEF LoadMessages
        <3> DEFINE later == StageAfter(export.unread \ batch)
                   left == export.unread \ batch
                   read == {m \in messages : m.session \in batch}
        <3>2. export' = [export EXCEPT !.stage = later, !.unread = left, !.rows = @ \cup read]
            BY <2>0
        <3> HIDE DEF later, left, read
        <3>3. /\ export'.stage = later /\ export'.unread = left /\ export'.rows = export.rows \cup read
              /\ export'.sessions = export.sessions /\ export'.roster = export.roster
              /\ export'.past = export.past /\ export'.known = export.known
            BY <3>2
        <3> QED
            BY <3>1, <3>3 DEF later, left, read
    <2>2. /\ export'.stage \in Read /\ export'.stage # "idle" /\ export'.stage \notin Asked
          /\ export'.stage = "done" => export'.unread = {}
        BY <2>1 DEF StageAfter, Read, Asked
    <2>3. UNCHANGED <<chat_sessions, messages, request, pc>>
        BY <1>5 DEF vars
    <2>4. export.stage \notin Asked /\ export.stage \in Read
        BY <2>1 DEF Asked, Read
    <2> QED
        BY <2>1, <2>2, <2>3, <2>4 DEF Followed, Live
<1>6. CASE UNCHANGED <<vars, accounts>> /\ FailExport
    <2>1. export' = [NoExport EXCEPT !.stage = "failed"]
        BY <1>6 DEF FailExport
    <2>2. /\ export'.stage = "failed" /\ export'.sessions = {}
          /\ export'.past = {} /\ export'.known = {}
        BY <2>1 DEF NoExport
    <2> QED
        BY <2>2 DEF Followed, Asked, Read
<1> QED
    BY <1>1, <1>2, <1>3, <1>4, <1>5, <1>6, EitherMoves

\* A finished export has every session that was there when it began, under its owner,
\* and every turn stored by then, unless deleted since; and no session whose DELETE had
\* been answered by then (export_all's three SELECTs, in their order).
THEOREM ExportsCoverThePast == ExportSpec => []ExportReflectsThePast
<1> DEFINE Inv == Chatting /\ ExportTypeOK /\ ReadsAreWhole /\ Housed /\ Followed
<1>1. ExportInit => ReadsAreWhole /\ Housed /\ Followed
    BY DEF ExportInit, Init, ReadsAreWhole, Housed, Followed, NoExport, Asked, Read, Written, Whole
<1>2. Inv => ExportReflectsThePast
    <2> SUFFICES ASSUME Inv, export.stage = "done"
                 PROVE  /\ \A s \in export.known : Live(s) =>
                              \E e \in Dumped : e.id = s /\ e.user_id = chat_sessions[s].user_id
                        /\ \A m \in messages : m.req \in export.past => m \in DumpedRows
                        /\ \A r \in export.past : \A e \in Dumped :
                              ~(request[r].op = "delete" /\ pc[r] = "replied"
                                /\ e.id = request[r].session)
        BY DEF ExportReflectsThePast
    <2>1. export.stage \in Read /\ export.stage \notin Asked
        BY DEF Read, Asked
    <2>2. ASSUME NEW s \in export.known, Live(s)
          PROVE  \E e \in Dumped : e.id = s /\ e.user_id = chat_sessions[s].user_id
        <3>1. PICK e \in export.sessions : e.id = s
            BY <2>1, <2>2 DEF Followed
        <3>2. e.user_id = chat_sessions[s].user_id /\ e.user_id \in export.roster
            BY <2>1, <3>1 DEF ReadsAreWhole, Followed
        <3> QED
            BY <3>1, <3>2 DEF Dumped
    <2>3. ASSUME NEW m \in messages, m.req \in export.past
          PROVE  m \in DumpedRows
        <3>1. m \in export.rows
            BY <2>1, <2>3 DEF Followed
        <3>2. m.session \in export.known /\ Live(m.session)
            BY <2>3 DEF Followed, Chatting, IInv, NoOrphans
        <3> QED
            BY <2>2, <3>1, <3>2 DEF DumpedRows
    <2>4. ASSUME NEW r \in export.past, NEW e \in Dumped,
                 request[r].op = "delete", pc[r] = "replied", e.id = request[r].session
          PROVE  FALSE
        BY <2>4 DEF Followed, Dumped
    <2> QED
        BY <2>2, <2>3, <2>4
<1> QED
    BY <1>1, <1>2, ChattingHolds, ReadsAreWholeStep, HousedStep, FollowedStep, PTL DEF ExportSpec

-----------------------------------------------------------------------------
(* A session's row beside its turns. *)

\* What a session as the export read it, and a turn of it that had been stored when the
\* export began, have to do with each other, as far as the rows show.
Agree(e, m, rows) ==
    /\ e.title # None
    /\ \/ m.created_at <= e.updated_at
       \/ \E w \in rows : w.session = e.id /\ Overlap(w.req, m.req)
       \/ /\ TimedByDatabase(m) /\ ReplyRow(m.req) \notin rows
          /\ \A x \in rows :
                x.session = e.id /\ x.req \in export.past => m.req \notin before[x.req]

Consistent(rows) ==
    \A e \in export.sessions : \A m \in rows :
        m.session = e.id /\ m.req \in export.past => Agree(e, m, rows)

ReadInOrder ==
    /\ export.stage \notin Read => export.sessions = {} /\ export.rows = {}
    /\ \A m \in export.rows : m.session \notin export.unread
    /\ Consistent(messages) /\ Consistent(export.rows)

\* Two requests that have begun overlap or do not, for ever.
LEMMA OverlapStays ==
    ASSUME TypeOK, [Next]_vars, NEW q \in Requests, NEW r \in Requests,
           pc[q] # "idle", pc[r] # "idle", Overlap(q, r)
    PROVE  Overlap(q, r)'
BY StepFrame DEF Overlap

\* What is left of a pool of rows, while the export stands still, tells what it told.
LEMMA ConsistentLater ==
    ASSUME TypeOK, [Next]_vars, export' = export,
           NEW rows \in SUBSET MessageRow, NEW left \in SUBSET MessageRow,
           Consistent(rows),
           \A m \in rows : pc[m.req] \in {"streaming"} \cup Ended,
           \A m \in left : m.req \in export.past => m \in rows,
           \A m \in left, w \in rows :
               m.req \in export.past /\ w.session = m.session => w \in left
    PROVE  Consistent(left)'
<1> SUFFICES ASSUME NEW e \in export.sessions, NEW m \in left,
                    m.session = e.id, m.req \in export.past
             PROVE  Agree(e, m, left)'
    BY DEF Consistent
<1>1. m \in rows /\ m \in MessageRow /\ m.req \in Requests /\ Agree(e, m, rows)
    BY DEF Consistent, MessageRow
<1>2. ASSUME NEW w \in rows, w.session = e.id, Overlap(w.req, m.req)
      PROVE  w \in left /\ Overlap(w.req, m.req)'
    <2>1. PICK q \in Requests, r \in Requests : q = w.req /\ r = m.req
        BY <1>1 DEF MessageRow
    <2>2. pc[q] # "idle" /\ pc[r] # "idle"
        BY <1>1, <2>1 DEF Ended
    <2>3. Overlap(q, r)'
        BY <1>2, <2>1, <2>2, OverlapStays
    <2> QED
        BY <1>1, <1>2, <2>1, <2>3 DEF Overlap
<1>3. CASE /\ TimedByDatabase(m) /\ ReplyRow(m.req) \notin rows
           /\ \A x \in rows : x.session = e.id /\ x.req \in export.past => m.req \notin before[x.req]
    <2>1. TimedByDatabase(m)' /\ ReplyRow(m.req)' = ReplyRow(m.req)
        BY <1>1, <1>3, TimedStays, RowsFixed DEF Ended
    <2>2. ReplyRow(m.req)' \notin left
        BY <1>3, <2>1 DEF ReplyRow
    <2>3. ASSUME NEW x \in left, x.session = e.id, x.req \in export.past
          PROVE  m.req \notin before'[x.req]
        <3>1. x \in rows /\ x.req \in Requests /\ pc[x.req] # "idle"
            BY <2>3 DEF MessageRow, Ended
        <3> QED
            BY <1>3, <2>3, <3>1, StepFrame
    <2> QED
        BY <1>1, <2>1, <2>2, <2>3 DEF Agree
<1> QED
    BY <1>1, <1>2, <1>3 DEF Agree

LEMMA ReadInOrderStep ==
    Chatting /\ ExportTypeOK /\ ReadsAreWhole /\ Followed /\ ReadInOrder /\ [ExportNext]_exportVars
        => ReadInOrder'
<1> SUFFICES ASSUME Chatting, ExportTypeOK, ReadsAreWhole, Followed, ReadInOrder,
                    [ExportNext]_exportVars
             PROVE  ReadInOrder'
    OBVIOUS
<1>0. /\ TypeOK /\ TypeOK' /\ RowsHaveWriters /\ ListLagsOnlyUnderOverlap /\ Titled /\ [Next]_vars
      /\ messages \in SUBSET MessageRow /\ messages' \in SUBSET MessageRow
      /\ export.rows \in SUBSET MessageRow
    BY ChatStep, TypeStep, LagsBeside DEF Chatting, IInv, TypeOK, ExportTypeOK, Export
<1>1. CASE export' = export /\ accounts \subseteq accounts'
    <2>1. Consistent(messages)'
        <3>1. PICK rows \in SUBSET MessageRow, left \in SUBSET MessageRow :
                rows = messages /\ left = messages'
            BY <1>0
        <3>2. ASSUME NEW m \in left, m.req \in export.past PROVE m \in rows
            <4>1. SUFFICES ASSUME m \notin messages PROVE FALSE
                BY <3>1
            <4>2. m.req \in Requests /\ pc[m.req] \in {"stamped", "streaming", "completing"}
                BY <1>0, <3>1, <4>1, StepInsert DEF UserRow, ReplyRow
            <4> QED
                BY <3>2, <4>2 DEF Followed, Ended
        <3>3. ASSUME NEW m \in left, NEW w \in rows, m.req \in export.past, w.session = m.session
              PROVE  w \in left
            <4>1. m \in list_messages(w.session)
                BY <3>1, <3>2, <3>3 DEF list_messages
            <4> QED
                BY <1>0, <3>1, <3>3, <4>1, StepRemove
        <3>4. Consistent(rows) /\ \A m \in rows : pc[m.req] \in {"streaming"} \cup Ended
            BY <1>0, <3>1 DEF ReadInOrder, RowsHaveWriters
        <3>5. Consistent(left)'
            BY <1>0, <1>1, <3>2, <3>3, <3>4, ConsistentLater
        <3> QED
            BY <3>1, <3>5 DEF Consistent, Agree
    <2>2. Consistent(export.rows)'
        <3>1. PICK rows \in SUBSET MessageRow : rows = export.rows
            BY <1>0
        <3>2. Consistent(rows) /\ \A m \in rows : pc[m.req] \in {"streaming"} \cup Ended
            BY <3>1 DEF ReadInOrder, ReadsAreWhole, Written
        <3>3. Consistent(rows)'
            BY <1>0, <1>1, <3>2, ConsistentLater
        <3> QED
            BY <1>1, <3>1, <3>3 DEF Consistent, Agree
    <2> QED
        BY <1>1, <2>1, <2>2 DEF ReadInOrder
<1>2. CASE UNCHANGED <<vars, accounts>> /\ (Authorise \/ ListAccounts \/ FailExport)
    <2>1. \/ /\ export.stage \notin Read
             /\ export'.rows = export.rows /\ export'.sessions = export.sessions
          \/ export'.rows = {} /\ export'.sessions = {}
        <3>1. CASE Authorise
            BY <3>1 DEF Authorise, Read
        <3>2. CASE ListAccounts
            BY <3>2 DEF ListAccounts, Read
        <3>3. CASE FailExport
            BY <3>3 DEF FailExport, NoExport
        <3> QED
            BY <1>2, <3>1, <3>2, <3>3
    <2>2. export'.rows = {} /\ export'.sessions = {}
        BY <2>1 DEF ReadInOrder
    <2> QED
        BY <2>2 DEF ReadInOrder, Consistent
<1>3. CASE UNCHANGED <<vars, accounts>> /\ ListSessions
    <2>1. /\ export.stage = "roster_read" /\ export'.stage \in Read
          /\ export'.sessions = SessionsNow /\ export'.rows = export.rows
          /\ export'.past = export.past
        BY <1>3 DEF ListSessions, StageAfter, Read
    <2>2. export'.rows = {}
        BY <2>1 DEF ReadInOrder, Read
    <2>3. ASSUME NEW e \in SessionsNow, NEW m \in messages, m.session = e.id
          PROVE  Agree(e, m, messages)
        <3>1. e.title = chat_sessions[e.id].title /\ e.updated_at = chat_sessions[e.id].updated_at
            BY DEF SessionsNow
        <3> QED
            BY <1>0, <2>3, <3>1 DEF Agree, Titled, ListLagsOnlyUnderOverlap, list_messages
    <2>4. UNCHANGED <<messages, before, request, handle>>
        BY <1>3 DEF vars
    <2>5. \A e \in export'.sessions : \A m \in messages' : m.session = e.id =>
             Agree(e, m, messages)'
        BY <2>1, <2>3, <2>4 DEF Agree, Overlap, TimedByDatabase, UserRow, ReplyRow
    <2> QED
        BY <2>1, <2>2, <2>5 DEF ReadInOrder, Consistent
<1>4. CASE UNCHANGED <<vars, accounts>> /\ LoadMessages
    <2>1. PICK batch \in SUBSET export.unread :
            /\ export'.rows = export.rows \cup {m \in messages : m.session \in batch}
            /\ export'.sessions = export.sessions /\ export'.past = export.past
            /\ export'.unread = export.unread \ batch
        BY <1>4 DEF LoadMessages
    <2>2. export'.stage \in Read
        BY <1>4 DEF LoadMessages, StageAfter, Read, ExportTypeOK, Export
    <2> DEFINE read == {m \in messages : m.session \in batch}
    <2>3. ASSUME NEW m \in export.rows, NEW x \in read PROVE m.session # x.session
        BY DEF ReadInOrder
    <2>4. \A r \in Requests : ReplyRow(r).session = request[r].session
        BY DEF ReplyRow
    <2>5. ASSUME NEW e \in export.sessions, NEW m \in read, m.session = e.id, m.req \in export.past
          PROVE  Agree(e, m, export.rows \cup read)
        <3>1. m.req \in Requests /\ m.session = request[m.req].session /\ Agree(e, m, messages)
            BY <1>0, <2>5 DEF ReadInOrder, Consistent, MessageRow, RowsHaveWriters, UserRow, ReplyRow
        <3> QED
            BY <2>3, <2>4, <2>5, <3>1 DEF Agree
    <2>6. ASSUME NEW e \in export.sessions, NEW m \in export.rows,
                 m.session = e.id, m.req \in export.past
          PROVE  Agree(e, m, export.rows \cup read)
        <3>1. /\ m.req \in Requests /\ m.session = request[m.req].session
              /\ Agree(e, m, export.rows)
            BY <1>0, <2>6 DEF ReadInOrder, Consistent, ReadsAreWhole, Written, MessageRow, UserRow,
                              ReplyRow
        <3> QED
            BY <2>3, <2>4, <2>6, <3>1 DEF Agree
    <2>7. Consistent(export.rows \cup read) /\ \A m \in export.rows \cup read :
              m.session \notin export'.unread
        BY <2>1, <2>5, <2>6 DEF Consistent, ReadInOrder
    <2> HIDE DEF read
    <2>8. export'.rows = export.rows \cup read
        BY <2>1 DEF read
    <2>9. UNCHANGED <<messages, before, request, handle>>
        BY <1>4 DEF vars
    <2>10. Consistent(messages)' /\ Consistent(export.rows)'
        BY <2>1, <2>7, <2>8, <2>9
        DEF ReadInOrder, Consistent, Agree, Overlap, TimedByDatabase, UserRow, ReplyRow
    <2> QED
        BY <2>2, <2>7, <2>8, <2>10 DEF ReadInOrder
<1> QED
    BY <1>1, <1>2, <1>3, <1>4, EitherMoves

\* No session comes out without the title a turn of the past gave it, nor with a time
\* that such a turn has passed, unless that turn overlapped another one or, the last
\* of its session, left the time to the database (the sessions, then their messages).
THEOREM ExportsAreTornBeside == ExportSpec => []TornOnlyByOverlap
<1> DEFINE Inv == Chatting /\ ExportTypeOK /\ ReadsAreWhole /\ Housed /\ Followed /\ ReadInOrder
<1>1. ExportInit => ReadsAreWhole /\ Housed /\ Followed /\ ReadInOrder
    BY DEF ExportInit, Init, ReadsAreWhole, Housed, Followed, ReadInOrder, Consistent, NoExport,
           Asked, Read, Written, Whole
<1>2. Inv => TornOnlyByOverlap
    <2> SUFFICES ASSUME Inv, NEW e \in Dumped, NEW m \in DumpedRows,
                        m.session = e.id, m.req \in export.past
                 PROVE  Agree(e, m, DumpedRows)
        BY DEF TornOnlyByOverlap, Agree
    <2>1. e \in export.sessions /\ m \in export.rows /\ DumpedRows \subseteq export.rows
          /\ \A w \in export.rows : w.session = e.id => w \in DumpedRows
        BY DEF Dumped, DumpedRows
    <2>2. Agree(e, m, export.rows)
        BY <2>1 DEF ReadInOrder, Consistent
    <2> QED
        BY <2>1, <2>2 DEF Agree
<1> QED
    BY <1>1, <1>2, ChattingHolds, ReadsAreWholeStep, HousedStep, FollowedStep, ReadInOrderStep, PTL
    DEF ExportSpec
==============================================================================
