CONSTANTS
    Port = "FreeRTOS"
    MaxPriorities = 32
    Thread = {1, 2, 3}
    Main = Main
    Semaphore = {1, 2}
    None = None
    NoName = NoName
    MaxLogEntries = 8
    IterationCount = 3
    MaxWord = 7
SPECIFICATION Spec
PROPERTIES
    SemaphoreIdsInRange
