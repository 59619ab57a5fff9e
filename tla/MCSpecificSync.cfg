\* Threads, semaphores and levels are those of the instance Sync(b); each build
\* has a port of its own.
CONSTANTS
    Port = "FreeRTOS"
    MaxPriorities = 32
    Thread = {0, 1}
    Semaphore = {0, 1}
    Main = Main
    None = None
    NoTask = NoTask
    MaxWord = 15
SPECIFICATION SpecificSpec
INVARIANTS
    EverySignalCounted
PROPERTIES
    NeverStandsStill
