\* Two traced threads in two processes: one may stop and start tracing, the other
\* may end at any moment, and the list can fill up.
CONSTANTS
    t1 = t1
    t2 = t2
    r1 = r1
    r2 = r2
    NoEvent = NoEvent
    Threads = {t1, t2}
    Processes = {r1, r2}
    ProcOf <- Apart
    Inspected = {r1}
    Crashing = {r2}
    PyEvents <- FromSecond
    NodeNum = 3
    MaxEvents = 2
    StartCross = FALSE
SPECIFICATION Spec
INVARIANTS OwnSlotUntilHazard SlotInList
PROPERTIES FifoUntilHazard
CONSTRAINT UntilStray
CHECK_DEADLOCK FALSE
