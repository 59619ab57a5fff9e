CONSTANTS
    Port = "FreeRTOS"
    MaxPriorities = 32
    Thread = {0, 1}
    Main = Main
    NoName = NoName
    MaxLogEntries = 6
    Section = "critical section"
    ReporterPriority = 1
    IterationCount = 3
    MaxWord = 7
SPECIFICATION Spec
PROPERTIES
    InitializationEnds
CHECK_DEADLOCK FALSE
