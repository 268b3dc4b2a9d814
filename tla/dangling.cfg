\* A client that disconnects leaves its turn without a reply.
SPECIFICATION Spec
CONSTANTS
    Users = {u1}
    Sessions = {s1}
    Requests = {r1, r2}
    Clock <- TwoReadings
    None = None
    Given = Given
SYMMETRY Symmetry
INVARIANT
    NoDanglingTurn
