SPECIFICATION Spec
CONSTANTS
    NumFloors = 3
    EndTime = 2
    MaxArrivals = 1
    MaxRestarts = 1
    NumTerminals = 2
    MaxDisplays = 1
    MaxPages = 1
    MaxFrames = 2
    MaxEras = 2
    Lines = {"step", "run"}
    MaxHistory = 3
    Genomes = {"g1", "g2"}
    MaxResult = 1
    NumTrials = 2
    PopulationSize = 3
    MaxGenerations = 2
    MaxResets = 2
    Names = {"n"}
    Types = {"t"}
    MaxSpecs = 2
    MaxInstances = 1
    Limit = 2
    Weights <- WeightsOfBothSigns
    Signals = {0, 1}
    MaxValue = 3
INVARIANTS
    ElevatorTypeOK PeopleConserved OccupancyRight ButtonsTellQueues InclusiveTimesAgree
    ShownIsStored RunsNotMixed
    RecallInRange
    TreeUpToDate LookupsSucceed LoadRestoresSaved
    RangesApart ValuesCovered
PROPERTIES
    LongestWaitRecorded CommandsEnd BestNeverLost OthersKept
CHECK_DEADLOCK FALSE
