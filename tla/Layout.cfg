SPECIFICATION Spec
CONSTANTS
    Calls <- LayoutCalls
INVARIANTS
    Balanced
    ReadBack
    LevelsAreEnclosingLines
    BlocksAreCollections
CHECK_DEADLOCK FALSE
