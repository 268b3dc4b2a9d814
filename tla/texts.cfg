SPECIFICATION Spec
CONSTANTS
    Labels = {"GROQ_API_KEY", "JWT_SECRET"}
    Chars <- MCChars
    Marks <- MCMarks
    PATTERNS <- MCPatterns
    MIN_SECRET_LEN = 2
    Envs <- MCEnvs
    Sources <- MCSources
    None = None
    Blanks = {" ", "newline"}
    Space = " "
    Ellipsis = "..."
    MAX_TITLE_LENGTH = 3
    Untitled = Untitled
INVARIANTS
    TypeOK
    ExactlySecretsGo
    LeaksAreSpelledByMarks
    TitlesArePresentable
