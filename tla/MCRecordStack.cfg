CONSTANTS
    MaxSteps = 8
    MaxPlain = 2
    StackLimit = 27
    ThunkFS = 2
    Lits = {i1, Con}
    NewNodes <- MCNewNodes
    Undef = Undef
    NoRef = NoRef
    PcRet = PcRet
    PcUpd = PcUpd
    UpdClosure = UpdClosure
    Con = Con
    Fun = Fun
    Thunk = Thunk
    Caf = Caf
    Ind = Ind
    nc = nc
    ng = ng
    nt = nt
    nk = nk
    nx = nx
    ny = ny
    n1 = n1
    n2 = n2
    i1 = i1
    i2 = i2
    pcStop = pcStop
    Heap0 <- MCHeap0
    Mem0Choices <- MCMem0
SPECIFICATION Spec
CHECK_DEADLOCK FALSE
INVARIANTS
    TypeOK
    SnapshotRestoresStack
    FrameTracksInterpreter
    TraceHeapAgrees
