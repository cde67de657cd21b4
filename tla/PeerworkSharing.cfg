SPECIFICATION JoinedSpec
CONSTANTS
    Peers = {1, 2}
    Clients = {c1}
    None = None
    NoClient = NoClient
    Rank <- IdOrder
    MaxThreads <- FewerFirst
    Contacts <- ContactFirst
    Equipped <- Everyone
    Bound <- ThreePosts
INVARIANTS
    TypeOK
    CapacityRespected
    AnswersCovered
    NoJobLost
    OneCopyUntilTimeout
    ExecutorOnRecord
CHECK_DEADLOCK FALSE
