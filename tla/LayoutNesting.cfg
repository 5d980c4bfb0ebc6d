SPECIFICATION Spec
CONSTANTS
    Calls <- NestingCalls
INVARIANTS
    BlocksDeepen
CHECK_DEADLOCK FALSE
