SPECIFICATION Spec
CONSTANTS
    Char <- ModesChars
    FidelityDepth = 4
    Grammars <- ModesGrammars
    ErrorPolicy = "raise"
    DfaModes = {"default", "inner", "digits"}
    MaxDepth = 3
    Columns = "bytes"
    Announces <- ModesAscii
    Malformed = {}
    Insignificant = {}
    Texts <- ShortTexts
    MaxPiece = 5
    Word = 8
PROPERTIES
    CallReturns
    TextEnds
CHECK_DEADLOCK FALSE
