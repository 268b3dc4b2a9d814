\* Replies of up to five characters, cut by a mock of two-character deltas and by Groq.
SPECIFICATION FairSpec
CONSTANTS
    MaxReply = 5
    Chunk = 2
    None = None
INVARIANTS
    TypeOK
    FramesInOrder
    TerminalFrameIsStored
    StoredIsShown
    DoneIsWhole
PROPERTIES
    StoredOnce
    StreamEnds
