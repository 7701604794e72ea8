\* One thread on its second lap.
CONSTANTS
    t1 = t1
    t2 = t2
    r1 = r1
    r2 = r2
    NoEvent = NoEvent
    Threads = {t1}
    Processes = {r1}
    ProcOf <- Alone
    Inspected = {}
    Crashing = {}
    PyEvents <- FromSecond
    NodeNum = 3
    MaxEvents = 4
    StartCross = FALSE
SPECIFICATION Spec
INVARIANTS ThreadOrder
CONSTRAINT OnlyStale
CHECK_DEADLOCK FALSE
