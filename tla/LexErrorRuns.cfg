SPECIFICATION RecoverSpec
CONSTANTS
    Char <- AfterChars
    FidelityDepth = 4
    Grammars <- AfterGrammars
    ErrorPolicy = "token"
    DfaModes = {"default"}
    MaxDepth = 3
    Columns = "bytes"
    Announces <- AfterAscii
    Malformed = {}
    Insignificant = {}
    Texts <- AfterTexts
    EofPolicy = "append"
INVARIANTS
    ErrorRunsApart
CHECK_DEADLOCK FALSE
