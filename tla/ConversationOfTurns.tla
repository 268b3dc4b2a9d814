------------------------- MODULE ConversationOfTurns -------------------------
(***************************************************************************)
(* The chat service implements the conversation: each session's state read *)
(* off the tables, and each request's turn off its rows and its progress.  *)
(***************************************************************************)
EXTENDS ChatTurns

Statuses == [s \in Sessions |-> chat_sessions[s].status]
Owners == [s \in Sessions |-> chat_sessions[s].user_id]
Asks == [r \in Requests |-> [actor |-> request[r].actor, session |-> request[r].session]]

StageOf(r) ==
    IF UserRow(r) \notin messages THEN "absent"
    ELSE IF ReplyRow(r) \in messages THEN "answered"
    ELSE IF pc[r] = "streaming" THEN "waiting"
    ELSE "abandoned"
Stages == [r \in Requests |-> StageOf(r)]

Promised == INSTANCE Conversation WITH Turns <- Requests, Nobody <- None,
                status <- Statuses, owner <- Owners, asks <- Asks, stage <- Stages

\* The tables only ever move as a conversation does: the whole of ChatService, with
\* its races, its failures and its deletions under way, is one that says, answers,
\* gives up or exchanges one turn at a time, and forgets only whole sessions.
ImplementsConversation == Promised!Spec
==============================================================================
