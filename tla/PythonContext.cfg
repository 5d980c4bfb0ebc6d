SPECIFICATION Safety
CONSTANTS
    t1 = t1
    t2 = t2
    Nobody = Nobody
    Threads <- TwoThreads
    Pieces <- SomePieces
    MaxText = 4
    ReleaseFrom = 2
    Context = 1
PROPERTIES
    SnippetIsTokenizes
