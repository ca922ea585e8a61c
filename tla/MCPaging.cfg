SPECIFICATION FairSpec
CONSTANTS
    a0 = a0
    a1 = a1
    b0 = b0
    A = A
    B = B
    Threads = {a0, a1, b0}
    Spaces = {A, B}
    NoThread = NoThread
    NoSpace = NoSpace
    Space <- MCSpace
    ThreadID <- MCThreadID
    Touches <- Few
    NumExecPages = 1
    StackPages = 2
    NumThreads = 2
    NumPhysPages = 2
    TLBSize = 2
    SwapSize = 1
    Policy = "FIFO"
    FreshFrame <- NoFrame
    MaxWrites = 0
    Exits = "quiet"
CHECK_DEADLOCK FALSE
INVARIANTS
    OneLoaderPerFrame
    OneFramePerPage
    TranslationsOwn
    BitmapExact
    StopsOnlyWhenFull
    PagesNotMixed
PROPERTIES
    FaultsEnd
