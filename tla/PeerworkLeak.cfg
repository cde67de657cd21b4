SPECIFICATION JoinedSpec
CONSTANTS
    Peers = {1, 2}
    Clients = {c1}
    None = None
    NoClient = NoClient
    Rank <- IdOrder
    MaxThreads <- TwoThreads
    Contacts <- ContactFirst
    Equipped <- Everyone
    Bound <- ThreePosts
INVARIANTS
    OpenRequestsAwaited
CHECK_DEADLOCK FALSE
