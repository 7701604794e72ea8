\* One traced thread, three slots, enough calls to go round the list twice.
CONSTANTS
    t1 = t1
    t2 = t2
    r1 = r1
    r2 = r2
    NoEvent = NoEvent
    Threads = {t1}
    Processes = {r1}
    ProcOf <- Alone
    Inspected = {}
    Crashing = {}
    PyEvents <- EverySecond
    NodeNum = 3
    MaxEvents = 7
    StartCross = FALSE
SPECIFICATION FairSpec
INVARIANTS TypeOK DueBeforeStop AnalysedFromCrossing
PROPERTIES ReservedIsTaken ExitStopsEngine
CONSTRAINT UntilHazard
CHECK_DEADLOCK FALSE
