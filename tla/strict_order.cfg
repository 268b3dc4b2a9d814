\* Two overlapping turns tie.
SPECIFICATION Spec
CONSTANTS
    Users = {u1}
    Sessions = {s1}
    Requests = {r1, r2}
    Clock <- TwoReadings
    None = None
    Given = Given
SYMMETRY Symmetry
INVARIANT
    StrictOrder
