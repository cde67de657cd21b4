SPECIFICATION JoinedSpec
CONSTANTS
    Peers = {1, 2}
    Clients = {c1}
    None = None
    NoClient = NoClient
    Rank <- IdOrder
    MaxThreads <- OneThread
    Contacts <- ContactFirst
    Equipped <- Everyone
    Bound <- PostAndUpdate
INVARIANTS
    UpdateAssertionHolds
CHECK_DEADLOCK FALSE
