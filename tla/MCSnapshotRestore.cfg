CONSTANTS
    Bias = 4
    RefFirst = 5
    BloomBits = 2
    WordBits = 8
    HalfBits = 4
    StackWords = 8
    Exits <- MCExits
SPECIFICATION Spec
CHECK_DEADLOCK FALSE
INVARIANTS
    RoundTrip
    SideTraceSeesRestoredState
    InheritsEachRefOnce
