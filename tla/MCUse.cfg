SPECIFICATION Spec
CONSTANTS
    NumServers = 2
    waiter = waiter
    waker = waker
    Clients = {waiter, waker}
    MaxObjects = 2
    LockNums = {3}
    CVNums = {1, 3}
    MVNums = {1, 2}
    Values = {0, 1}
    Programs <- MonitorPrograms
    NoOne = NoOne
CHECK_DEADLOCK FALSE
INVARIANTS
    HoldersOwn
    OneAnswerPerRequest
    SleepersGaveUpLock
    GivenUpRightly
