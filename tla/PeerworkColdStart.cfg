SPECIFICATION FairSpec
CONSTANTS
    Peers = {1, 2, 3}
    Clients = {c1}
    None = None
    NoClient = NoClient
    Rank <- IdOrder
    MaxThreads <- OneThread
    Contacts <- ContactPrevious
    Equipped <- Everyone
    Bound <- OnePost
INVARIANTS
    NoWorkIgnored
    OpenRequestsAwaited
PROPERTIES
    AcquaintanceSpreads
    EveryJobAnswered
CHECK_DEADLOCK FALSE
