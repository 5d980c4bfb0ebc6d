SPECIFICATION Spec
CONSTANTS
    Files <- GrammarFiles
    Invocations <- Calls
    Registry <- Examples
    Beginless <- Never
INVARIANTS
    MeansItsLines
    AcceptedBuilds
    TablesAnswer
    OutputReadsBack
    StatusTells
CHECK_DEADLOCK FALSE
