CONSTANTS
    Port = "FreeRTOS"
    MaxPriorities = 32
    Thread = {0, 1, 2, 3, 4}
    Main = Main
    MaxWord = 31
SPECIFICATION Spec
INVARIANTS
    TypeOK
    PeriodTotalExact
    NoFalseAlarm
PROPERTIES
    CountsInRounds
    ReportsForever
