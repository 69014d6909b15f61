CONSTANTS
    f = f
    g = g
    r = r
    u = u
    b = b
    FuncPCs <- MCFuncPCs
    IFuncPCs <- MCIFuncPCs
    RetPCs <- MCRetPCs
    BodyPCs <- MCBodyPCs
    UpdReturnPc = u
    NoTrace = NoTrace
    MaxBranches = 2
    HotExit = 2
    MaxFragments = 2
    MaxSnaps = 2
SPECIFICATION Spec
CONSTRAINT StoreBound
INVARIANTS
    TypeOK
    DispatchConsistent
    TransfersPreservePc
PROPERTY ImplementsTraceStore
