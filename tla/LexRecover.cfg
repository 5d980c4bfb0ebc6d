SPECIFICATION RecoverSpec
CONSTANTS
    Char <- RecoverChars
    FidelityDepth = 4
    Grammars <- RecoverGrammars
    ErrorPolicy = "token"
    DfaModes = {"default"}
    MaxDepth = 3
    Columns = "utf16"
    Announces <- RecoverAnnounces
    Malformed = {"bad2"}
    Insignificant = {}
    Texts <- RecoverTexts
    EofPolicy = "append"
INVARIANTS
    IteratesAsReference
    ErrorRunsApart
    EqualOnlyAtTheEnd
PROPERTIES
    ScanProgresses
CHECK_DEADLOCK FALSE
