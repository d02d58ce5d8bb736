SPECIFICATION Spec
CONSTANTS
    PoolThreads = 3
    Graphs <- GraphsMixed
    MayAbort = TRUE
    MayPause = TRUE
    GraphMod = 8
INVARIANTS TypeOK ResetIsPrivate
PROPERTIES ComputesInOrder CallsReturn
