SPECIFICATION ScanSpec
CONSTANTS
    Char <- ScanChars
    FidelityDepth = 3
    Grammars <- ScanGrammars
    ErrorPolicy = "raise"
    DfaModes = {"default", "inner"}
    MaxDepth = 3
    Columns = "bytes"
    Announces <- ScanAscii
    Malformed = {}
    Insignificant = {"flow"}
    Texts <- ScanTexts
    EofPolicy = "omit"
INVARIANTS
    TypeOK
    FramesAreOpeners
    IteratesAsReference
    BlocksNest
    GivenInOrder
PROPERTIES
    ThrowsAgain
    ExtensionsStayInBlock
CHECK_DEADLOCK FALSE
