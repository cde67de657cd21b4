SPECIFICATION Spec
CONSTANTS
    MaxPending = 1
    PopSize = 2
    GenerationBatch = 2
    GenomeBatch = 3
    Trials = 2
    MaxRuns = 2
    MaxNames = 1
    MaxGenerations = 3
INVARIANTS
    RecordIsConsistent
    PausedIsStored
    FinishedRunsEnded
    NamedIsStored
CHECK_DEADLOCK FALSE
