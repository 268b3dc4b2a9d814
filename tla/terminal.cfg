\* Does every stream whose client stays end in done or error?
SPECIFICATION Spec
CONSTANTS
    MaxReply = 2
    Chunk = 2
    None = None
INVARIANT
    EndsInTerminalFrame
