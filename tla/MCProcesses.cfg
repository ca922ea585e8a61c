SPECIFICATION FairSpec
CONSTANTS
    Threads = {1, 2, 3, 4}
    MAX_THREADS = 3
    MAX_PROCESSES = 2
    StackPages = 2
    NumExecPages = 1
CHECK_DEADLOCK FALSE
INVARIANTS
    HaltsExactlyAtEnd
    NothingShared
PROPERTY CallsEnd
