CONSTANTS
    Port = "Zephyr"
    MaxPriorities = 32
    Thread = {0, 1}
    Main = Main
    Semaphore = {0}
    None = None
    MaxWord = 31
SPECIFICATION MCSpec
INVARIANTS
    NoFalseAlarms
    InterruptsCounted
PROPERTIES
    BackIfAtOnce
    NoResumeLost
    AllCount
