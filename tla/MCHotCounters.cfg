CONSTANTS
    PCs <- MCPCs
    NumCounters = 4
    CountBits = 3
    Threshold = 3
    SetValues = {0, 2}
SPECIFICATION Spec
INVARIANTS TypeOK CountsDown
PROPERTY TripsExactlyAtPeriod
