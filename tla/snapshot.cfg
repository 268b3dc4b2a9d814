\* Is there a moment whose tables the export shows?
SPECIFICATION SnapshotSpec
CONSTANTS
    Users = {u1}
    Sessions = {s1}
    Requests = {r1}
    Clock = {0}
    None = None
    Given = Given
    Batch = 1
CONSTRAINT NoTitleGiven
INVARIANT
    IsSnapshot
