----------------------------- MODULE ChatExport ------------------------------
(***************************************************************************)
(* The super-admin export (GET /admin/export, application/                 *)
(* export_service.py) beside the chat it exports.                          *)
(*                                                                         *)
(* The export reads accounts, then sessions, then messages, the messages   *)
(* in batches of sessions, each by a SELECT of its own and each seeing     *)
(* what is committed by then (READ COMMITTED), and nests what it has read. *)
(***************************************************************************)
EXTENDS ChatTurns, FiniteSets

CONSTANT Batch  \* sessions per SELECT of messages

ASSUME BatchAssumption == Batch \in Nat \ {0}

VARIABLES
    accounts,   \* table users: whose rows exist
    export      \* one export: its progress and what its SELECTs have returned

exportVars == <<chat_sessions, messages, request, pc, handle, before, accounts, export>>

ExportInFlight == {"begun", "roster_read", "loading"}
ExportEnded == {"done", "refused", "failed"}
Loaded == [id : Sessions, user_id : Users \cup {None}, title : Titles, updated_at : Nat]

\* roster, sessions, rows: the results; unread: sessions whose messages are to come;
\* past and known, history variables: requests over and sessions live when it began.
Export == [stage : {"idle"} \cup ExportInFlight \cup ExportEnded,
           roster : SUBSET Users, sessions : SUBSET Loaded, unread : SUBSET Sessions,
           rows : SUBSET MessageRow, past : SUBSET Requests, known : SUBSET Sessions]

ExportTypeOK ==
    /\ accounts \subseteq Users
    /\ export \in Export

NoExport == [stage |-> "idle", roster |-> {}, sessions |-> {}, unread |-> {}, rows |-> {},
             past |-> {}, known |-> {}]

ExportInit ==
    /\ Init
    /\ accounts \in (SUBSET Users) \ {{}}
    /\ export = NoExport

-----------------------------------------------------------------------------
\* create_user, as far as the export sees it.
CreateAccount(u) ==
    /\ export.stage \notin ExportEnded
    /\ u \notin accounts
    /\ accounts' = accounts \cup {u}
    /\ UNCHANGED <<vars, export>>

\* The chat goes on meanwhile, for users that have an account; it is followed until
\* the export is over.
Chat ==
    /\ export.stage \notin ExportEnded
    /\ \/ \E u \in accounts, s \in Sessions, title \in {None, Given} : CreateSession(u, s, title)
       \/ \E r \in Requests : request[r].actor \in accounts /\ Begin(r)
       \/ \E r \in Requests : Serve(r) \/ Disconnect(r) \/ Die(r)
    /\ UNCHANGED <<accounts, export>>

\* The permission check, before any query of the export.
Authorise ==
    /\ export.stage = "idle"
    /\ \E role \in {"user", "admin", "super_admin"} :
          export' = [export EXCEPT
              !.stage = IF role = "super_admin" THEN "begun" ELSE "refused",
              !.past = {r \in Requests : pc[r] \in Ended},
              !.known = {s \in Sessions : Live(s)}]
    /\ UNCHANGED <<vars, accounts>>

\* list_all
ListAccounts ==
    /\ export.stage = "begun"
    /\ export' = [export EXCEPT !.stage = "roster_read", !.roster = accounts]
    /\ UNCHANGED <<vars, accounts>>

\* Mutant: updated_at is left out.
SessionsWithoutTime ==
    {[id |-> s, user_id |-> chat_sessions[s].user_id, title |-> chat_sessions[s].title] :
        s \in {t \in Sessions : Live(t)}}

SessionsNow ==
    {[id |-> s, user_id |-> chat_sessions[s].user_id, title |-> chat_sessions[s].title,
      updated_at |-> chat_sessions[s].updated_at] : s \in {t \in Sessions : Live(t)}}

\* With the last SELECT the export is done; what is left is nesting its results.
StageAfter(unread) == IF unread = {} THEN "done" ELSE "loading"

\* list_all_sessions_with_messages: the sessions.
ListSessions ==
    /\ export.stage = "roster_read"
    /\ LET live == {s \in Sessions : Live(s)}
       IN  export' = [export EXCEPT !.stage = StageAfter(live), !.sessions = SessionsNow,
                                    !.unread = live]
    /\ UNCHANGED <<vars, accounts>>

\* Mutant: the first batch is taken for all.
LoadOneBatch ==
    /\ export.stage = "loading"
    /\ \E batch \in (SUBSET export.unread) \ {{}} :
          /\ Cardinality(batch) <= Batch
          /\ export' = [export EXCEPT !.stage = "done", !.unread = {},
                                      !.rows = @ \cup {m \in messages : m.session \in batch}]
    /\ UNCHANGED <<vars, accounts>>

\* selectinload: the messages of the next batch of sessions, all in one SELECT.
LoadMessages ==
    /\ export.stage = "loading"
    /\ \E batch \in (SUBSET export.unread) \ {{}} :
          /\ Cardinality(batch) <= Batch
          /\ export' = [export EXCEPT !.stage = StageAfter(export.unread \ batch),
                                      !.unread = @ \ batch,
                                      !.rows = @ \cup {m \in messages : m.session \in batch}]
    /\ UNCHANGED <<vars, accounts>>

\* A SELECT fails with its connection, or the worker dies: nothing comes out.
FailExport ==
    /\ export.stage \in ExportInFlight
    /\ export' = [NoExport EXCEPT !.stage = "failed"]
    /\ UNCHANGED <<vars, accounts>>

ExportQuiescent ==
    /\ export.stage \in ExportEnded
    /\ UNCHANGED exportVars

\* What comes out: sessions_by_user is looked up for the users of the roster only.
Dumped == {e \in export.sessions : e.user_id \in export.roster}
DumpedRows == {m \in export.rows : \E e \in Dumped : m.session = e.id}

ExportNext ==
    \/ \E u \in Users : CreateAccount(u)
    \/ Chat
    \/ Authorise
    \/ ListAccounts
    \/ ListSessions
    \/ LoadMessages
    \/ FailExport
    \/ ExportQuiescent

ExportSpec == ExportInit /\ [][ExportNext]_exportVars

-----------------------------------------------------------------------------
(* Safety *)

\* An export has everything that was there when it began, unless it was deleted since:
\* each session under its owner, and each turn a finished request had stored.  And it
\* has no session that a finished request had deleted.  Accounts, sessions and
\* messages are read at different times (export_all), and only in this order do the
\* owners of old sessions precede the sessions they own.
ExportReflectsThePast ==
    export.stage = "done" =>
        /\ \A s \in export.known : Live(s) =>
              \E e \in Dumped : e.id = s /\ e.user_id = chat_sessions[s].user_id
        /\ \A m \in messages : m.req \in export.past => m \in DumpedRows
        /\ \A r \in export.past : \A e \in Dumped :
              ~(request[r].op = "delete" /\ pc[r] = "replied" /\ e.id = request[r].session)

\* No turn is exported in part: no reply without its user turn, no half of a
\* non-streaming send, and nobody's turn under somebody else, although messages
\* arrive and sessions vanish between two batches (list_all_sessions_with_messages).
ExportedTurnsAreWhole ==
    /\ \A r \in Requests :
          /\ ReplyRow(r) \in DumpedRows => UserRow(r) \in DumpedRows
          /\ request[r].op = "send" /\ UserRow(r) \in DumpedRows => ReplyRow(r) \in DumpedRows
    /\ \A e \in Dumped : \A m \in DumpedRows :
          m.session = e.id => e.user_id = request[m.req].actor

\* A session is exported without the title its turns gave it only where those turns
\* overlapped the export, whose sessions are read before their messages.  Its time is
\* behind one of those turns only if that one overlapped another, too, or is the turn
\* whose time the database's clock gave, and the last one there was.
TornOnlyByOverlap ==
    \A e \in Dumped : \A m \in DumpedRows : m.session = e.id /\ m.req \in export.past =>
        /\ e.title # None
        /\ \/ m.created_at <= e.updated_at
           \/ \E w \in DumpedRows : w.session = e.id /\ Overlap(w.req, m.req)
           \/ /\ TimedByDatabase(m) /\ ReplyRow(m.req) \notin DumpedRows
              /\ \A x \in DumpedRows :
                    x.session = e.id /\ x.req \in export.past => m.req \notin before[x.req]
==============================================================================
