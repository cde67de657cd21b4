SPECIFICATION JoinedSpec
CONSTANTS
    Peers = {1, 2}
    Clients = {c1}
    None = None
    NoClient = NoClient
    Rank <- IdOrder
    MaxThreads <- OneThread
    Contacts <- ContactFirst
    Equipped <- Everyone
    Bound <- PostAndFaults
INVARIANTS
    IdsNeverCollide
    LocalAssertionsHold
    LostJobsTimeOut
PROPERTIES
    ServiceKept
CHECK_DEADLOCK FALSE
