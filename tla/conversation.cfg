\* Two users and two sessions, requests on their own and on foreign sessions, fairly
\* served; a clock that stands still (the overlap run has one that moves).
SPECIFICATION RepresentativeSpec
CONSTANTS
    Users = {u1, u2}
    Sessions = {s1, s2}
    Requests = {r1, r2}
    Clock = {0}
    None = None
    Given = Given
INVARIANT
    OwnerOnly
PROPERTIES
    ImplementsConversation
    EveryRequestEnds
    TurnEventuallyAnswered
