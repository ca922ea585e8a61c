SPECIFICATION FairSpec
CONSTANTS
    main = main
    t1 = t1
    t2 = t2
    t3 = t3
    Main = main
    Threads <- MCThreads
    NoThread = NoThread
    NoLock = NoLock
    InitialValue <- MCInitialValue
    Locks = {la}
    Conditions = {c}
    Semaphores = {}
    MaxValue = 0
    FreshOwner = {NoThread}
    FreshWaitingLock = {NoLock}
CHECK_DEADLOCK FALSE
PROPERTIES
    AcquireReturns
    SignalledReturns
