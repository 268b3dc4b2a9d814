\* Three requests on one session of one user: every overlap of turns.
SPECIFICATION Spec
CONSTANTS
    Users = {u1}
    Sessions = {s1}
    Requests = {r1, r2, r3}
    Clock <- TwoReadings
    None = None
    Given = Given
SYMMETRY Symmetry
INVARIANTS
    TypeOK
    RealTimeOrder
    TurnsAreWhole
    DanglingOnlyIfAbandoned
    NoOrphans
    PromptCoversThePast
    ListLagsOnlyUnderOverlap
PROPERTIES
    TitleOverwrittenOnlyByOverlap
    HistoryIsAppendOnly
