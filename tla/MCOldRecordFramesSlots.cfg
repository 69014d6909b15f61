CONSTANTS
    MaxSlots = 24
    InitialBase = 12
    SlotBits = 5
    StackWords = 40
    FrameSizes = {1, 2}
    MaxArgs = 2
    OuterSizes <- MCOuterSizes
    MaxRecorded = 9
    MaxData = 2
    CallByName = FALSE

SPECIFICATION Spec
CHECK_DEADLOCK FALSE
INVARIANT
    SlotsInBounds
