\* Threads, semaphores and levels are those of the instance On(p); the port is
\* chosen at the start.
CONSTANTS
    Port = "FreeRTOS"
    MaxPriorities = 32
    Thread = {0}
    Semaphore = {0}
    Main = Main
    None = None
    NoMessage = NoMessage
    NoBlock = 0
    HeapBlocks = 3
    MaxWord = 15
SPECIFICATION ProcessSpec
INVARIANTS
    CreatedInTime
    TurnsBalance
PROPERTIES
    NeverStandsStill
