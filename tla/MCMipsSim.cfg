SPECIFICATION Spec
CHECK_DEADLOCK FALSE
CONSTANTS
    W = 8
    Registers = {0, 1, 2, 3, 4}
    R31 = 4
    V0 = 2
    MemorySize = 8
    ReturnValues = {0, 255}
    Starts <- AllStarts
PROPERTY ImplementsLooseIsa
