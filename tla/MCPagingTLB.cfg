SPECIFICATION Spec
CONSTANTS
    a0 = a0
    a1 = a1
    b0 = b0
    A = A
    B = B
    Threads = {a0, b0}
    Spaces = {A, B}
    NoThread = NoThread
    NoSpace = NoSpace
    Space <- MCSpace
    ThreadID <- MCThreadID
    Touches <- Shallow
    NumExecPages = 1
    StackPages = 1
    NumThreads = 1
    NumPhysPages = 2
    TLBSize = 4
    SwapSize = 6
    Policy = "FIFO"
    FreshFrame <- NoFrame
    MaxWrites = 1
    Exits = "never"
CHECK_DEADLOCK FALSE
INVARIANTS
    WrittenDataSurvives
