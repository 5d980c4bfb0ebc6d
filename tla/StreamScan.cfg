SPECIFICATION ScanSpec
CONSTANTS
    Char <- ScanChars
    FidelityDepth = 4
    Grammars <- ScanGrammars
    ErrorPolicy = "raise"
    DfaModes = {"default"}
    MaxDepth = 3
    Columns = "bytes"
    Announces <- ScanAscii
    Malformed = {}
    Insignificant = {"flow"}
    Texts <- ScanTexts
    MaxPiece = 5
    Word = 16
INVARIANTS
    UndoneLatestFirst
    ResumedMunchIsFresh
PROPERTIES
    OnlyTokensCommit
    StreamIsTokenize
    HoldsText
CHECK_DEADLOCK FALSE
