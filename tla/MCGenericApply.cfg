CONSTANTS
    MaxArgs = 3
    MaxArity = 3
    MaxInd = 1
    StackLimit = 22
    CallerBase = 3
    Locals = 1
    MaskBits = 8
SPECIFICATION Spec
CHECK_DEADLOCK FALSE
INVARIANTS
    TypeOK
    ArgumentsInPlace
    PapBuilt
    PointerMasksMatchArgs
    ApplyGuardsFirst
