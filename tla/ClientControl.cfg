SPECIFICATION FairSpec
CONSTANTS
    CanEnd = TRUE
    MaxPending = 2
INVARIANTS
    PromptIsTrue
    ThreadInRunningState
PROPERTIES
    JoinsReturn
    EndIsNoticed
    QuitEnds
CHECK_DEADLOCK FALSE
