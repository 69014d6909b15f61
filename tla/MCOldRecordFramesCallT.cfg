CONSTANTS
    MaxSlots = 24
    InitialBase = 12
    SlotBits = 5
    StackWords = 24
    FrameSizes = {3}
    MaxArgs = 4
    OuterSizes <- MCOuterSizesWide
    MaxRecorded = 2
    MaxData = 0
    CallByName = FALSE

SPECIFICATION Spec
CHECK_DEADLOCK FALSE
INVARIANT
    SlotsMatchStack
