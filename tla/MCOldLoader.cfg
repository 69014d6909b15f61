CONSTANTS
    A = A
    B = B
    iA = iA
    iB = iB
    cA = cA
    cB = cB
    Mods = {A, B}
    Root = A
    InfoNames = {iA, iB}
    ClosNames = {cA, cB}
    Programs <- MCProgramsNoSelf
    MaxDepth = 3

SPECIFICATION Spec
CHECK_DEADLOCK FALSE
INVARIANTS
    ForwardChainsExact
    RefsResolved
PROPERTY
    LoadCompletes
