SPECIFICATION Spec
CONSTANTS
    main = main
    t1 = t1
    t2 = t2
    t3 = t3
    Main = main
    Threads <- MCThreads
    NoThread = NoThread
    NoLock = NoLock
    InitialValue <- MCInitialValue
    Locks = {la, lb}
    Conditions = {c}
    Semaphores = {s}
    MaxValue = 2
    FreshOwner = {NoThread}
    FreshWaitingLock = {NoLock}
SYMMETRY MCSymmetry
CHECK_DEADLOCK FALSE
INVARIANTS
    TypeOK
    MutualExclusion
    NoThreadLost
    NoUnitStranded
PROPERTIES
    HandoverInOrder
    ReturnsOwning
