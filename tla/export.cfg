\* One export, one session per batch, while two requests of two users come and go.
SPECIFICATION WritersSpec
CONSTANTS
    Users = {u1, u2}
    Sessions = {s1, s2}
    Requests = {r1, r2}
    Clock <- TwoReadings
    None = None
    Given = Given
    Batch = 1
SYMMETRY Symmetry
CONSTRAINTS
    NoTitleGiven
    OnlyWriters
INVARIANTS
    ExportTypeOK
    ExportReflectsThePast
    ExportedTurnsAreWhole
    TornOnlyByOverlap
