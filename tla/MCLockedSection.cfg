CONSTANTS
    Port = "Zephyr"
    MaxPriorities = 32
    Thread = {0, 1}
    Main = Main
    NoName = NoName
    MaxLogEntries = 6
    Section = "scheduler lock"
    ReporterPriority = 2
    IterationCount = 3
    MaxWord = 7
SPECIFICATION MCSpec
INVARIANTS
    SectionsLogged
PROPERTIES
    ReportsOutside
    AllLocksMeasured
    ReportsForever
CHECK_DEADLOCK FALSE
