---------------------------- MODULE MCChatExport -----------------------------
(* An instance of ChatExport for TLC. *)
EXTENDS ChatExport, TLC

\* Enough for a clock that stands still, advances or steps back.
TwoReadings == {0, 1}

\* Reading one's own history is no matter to the export.
WritersInit == ExportInit /\ \A r \in Requests : request[r].op # "get"
WritersSpec == WritersInit /\ [][ExportNext]_exportVars

\* Sessions are named by their first turn, or not at all.
NoTitleGiven == \A s \in Sessions : chat_sessions[s].title # Given

\* A request that ends without having written is, to the export, one that was never
\* made; and a worker that dies under a stream is a client that goes away.
OnlyWriters == \A r \in Requests : pc[r] \notin {"not_found", "invalid", "error", "died"}

Symmetry == Permutations(Users) \cup Permutations(Sessions) \cup Permutations(Requests)
==============================================================================
