SPECIFICATION Safety
CONSTANTS
    Char <- SkipChars
    FidelityDepth = 4
    Grammars <- SkipGrammars
    ErrorPolicy = "raise"
    DfaModes = {"default"}
    MaxDepth = 3
    Columns = "bytes"
    Announces <- SkipAscii
    Malformed = {}
    Insignificant = {}
    Texts <- SkipTexts
    MaxPiece = 1
    Word = 16
INVARIANTS
    MemoryFollowsTokens
CHECK_DEADLOCK FALSE
