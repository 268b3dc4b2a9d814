-------------------------- MODULE MCConnectionPool --------------------------
(* An instance of ConnectionPool for TLC. *)
EXTENDS ConnectionPool

\* Requests are interchangeable: it is enough to look at those in the order of what
\* they are, which liveness checking allows and symmetry does not.
Rank == [short |-> 1, send |-> 2, stream |-> 3, ready |-> 4]
InOrder == \A q, r \in Requests : q < r => Rank[op[q]] <= Rank[op[r]]
OrderedInit == Init /\ InOrder
OrderedSpec == OrderedInit /\ [][Next]_vars /\ \A r \in Requests : WF_vars(Serve(r))
=============================================================================
