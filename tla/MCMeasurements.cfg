CONSTANTS
    Port = "Zephyr"
    MaxPriorities = 32
    Thread = {0, 1, 2}
    Main = Main
    Mutex = {1}
    Nobody = Nobody
    NoName = NoName
    MaxLogEntries = 3
    IterationCount = 2
    Cycles = 3
    ThroughputIterations = 4
    Event = {"misses"}
    CopyTime = {3, 7}
    MaxLate = 9
    MaxWord = 7
SPECIFICATION MCSpec
INVARIANTS
    LevelReturned
    MeasuresInversions
    CompleteReport
    LoggedExactly
    FirstRunPrinted
PROPERTIES
    NoInterference
    TestCompletes
