CONSTANTS
    MaxSlots = 24
    InitialBase = 12
    SlotBits = 5
    StackWords = 18
    FrameSizes = {1, 2}
    MaxArgs = 2
    OuterSizes <- MCOuterSizes
    MaxRecorded = 6
    MaxData = 2
    CallByName = FALSE

SPECIFICATION Spec
CHECK_DEADLOCK FALSE
INVARIANTS
    FrameViewMatches
    MaxslotIsFrameSize
    HeadersMaterialised
    MinslotBelowBase
    SlotsMatchStack
    TypeOK
