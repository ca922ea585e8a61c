SPECIFICATION FairSpec
CONSTANTS
    NumThreads = 2
    MaxCalls <- OneEach
    LineLength = 2
    BufferSize = 2
    Keyboard <- TwoKeys
    SystemTick = 2
    UserTick = 1
    TimerTicks = 2
    ConsoleTime = 3
    RotationTime = 2
    SeekTime = 2
    SectorsPerTrack = 2
    NumTracks = 2
CHECK_DEADLOCK FALSE
INVARIANTS
    HaltsOnlyWhenDone
    LatencyExact
    LinesWhole
    OneRequestAtATime
PROPERTY RequestsReturn
