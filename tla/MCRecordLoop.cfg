CONSTANTS
    f = f
    j = j
    t = t
    g = g
    r = r
    u = u
    b1 = b1
    b2 = b2
    FuncPCs <- MCFuncPCs
    ApThunkPCs <- MCApThunkPCs
    ApContPCs <- MCApContPCs
    LinkedPCs <- MCLinkedPCs
    RetPCs <- MCRetPCs
    UpdReturnPc = u
    Body <- MCBody
    MaxBranches = 3
    MaxFrames = 3
SPECIFICATION Spec
PROPERTY RecordingEnds
