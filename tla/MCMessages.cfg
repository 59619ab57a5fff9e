CONSTANTS
    Port = "Zephyr"
    MaxPriorities = 32
    Thread = {0, 1, 2, 3, 4, 5, 6}
    Main = Main
    NoMessage = NoMessage
    NoName = NoName
    MaxLogEntries = 12
    IterationCount = 10
    MaxWord = 11
SPECIFICATION MCSpec
INVARIANTS
    MessagesOnce
    TotalsAgree
    MessageOfIteration
    MeasurementsMatch
PROPERTIES
    EveryThreadTakesPart
    CompleteReport
CHECK_DEADLOCK FALSE
