SPECIFICATION FairSpec
CONSTANTS
    Threads = {main, other}
    Main = main
    MainThread = main
    Poller = other
    OwnSessions = {1, 2}
    OtherSession = 3
    LastRecordingId = 1
    LastCounterId = 1
    RecordLimit = 100
    ReplaySessions <- MCReplaySessions
    IntBits = 3
    OthersPosition = 1
    MaxEvents = 1
    OldPosition = 3
    TermBits = 1
    InitialTermId = 3
    MessagesCount = 1
    MaxOperations = 3
    NumberOfMessages = 2
    NoStop = 9
    MaxRounds = 2
    Programs <- MCPrograms
INVARIANTS
    TypeOK
    ExtensionContinues
    ExtensionStopReportIsTrue
    HeldByOne
    HeldIsRecorded
    ReplayIsOwn
    FirstRoundIsRecorded
PROPERTIES
    SearchIsRight
    InterruptEnds
    QuitEnds
CHECK_DEADLOCK FALSE
