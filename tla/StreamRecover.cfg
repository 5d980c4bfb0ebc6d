SPECIFICATION Safety
CONSTANTS
    Char <- RecoverChars
    FidelityDepth = 4
    Grammars <- RecoverGrammars
    ErrorPolicy = "token"
    DfaModes = {"default"}
    MaxDepth = 3
    Columns = "utf16"
    Announces <- RecoverAnnounces
    Malformed = {"lead2"}
    Insignificant = {}
    Texts <- RecoverTexts
    MaxPiece = 5
    Word = 8
INVARIANTS
    Inductive
    BufferIsText
    ContextSuffices
PROPERTIES
    StreamIsTokenize
CHECK_DEADLOCK FALSE
