----------------------------- MODULE MCChatTurns -----------------------------
(* Instances of ChatTurns, and of what it implements, for TLC. *)
EXTENDS ConversationOfTurns, TLC

\* Two readings are enough for a clock that stands still, advances or steps back.
TwoReadings == {0, 1}

Symmetry == Permutations(Users) \cup Permutations(Sessions) \cup Permutations(Requests)

\* Symmetry is not for liveness; instead, some request is the first user's and for the
\* first session, which is true of every behaviour once users and sessions are named.
RepresentativeInit ==
    /\ Init
    /\ LET r == CHOOSE r \in Requests : TRUE
       IN  /\ request[r].actor = CHOOSE u \in Users : TRUE
           /\ request[r].session = CHOOSE s \in Sessions : TRUE

RepresentativeSpec ==
    RepresentativeInit /\ [][Next]_vars /\ \A r \in Requests : WF_vars(Serve(r))
==============================================================================
