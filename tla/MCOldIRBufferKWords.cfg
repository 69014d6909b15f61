CONSTANTS
    add = add
    eq = eq
    k1 = k1
    k2 = k2
    w1 = w1
    tpc = tpc
    tclos = tclos
    f1 = f1
    f2 = f2
    r1 = r1
    NoVal = noval
    noval = noval
    InsOps = {add}
    Ints = {0}
    Words = {w1}
    LitTypes = {tpc, tclos}
    Offsets = {1}
    FuncPcs = {f1}
    RetPcs = {r1}
    RefBias = 20
    InitBufSize = 8
    BigBuf = 16
    BigOfs = 4
    InitKWords = 1
    WordBytes = 8
    MaxTraceLength = 6
    SizeFragment = 1
SPECIFICATION Spec
CHECK_DEADLOCK FALSE
INVARIANT KWordsInBounds
