\* A sink of one thread is reached after an event of another.
CONSTANTS
    Thread = {t0, t1}
    Main = t0
    Event <- LateEvent
    Info <- LateInfo
    Point <- LateEvent
    EventOf <- LateEventOf
    MainStart = "main"
    Control <- LateFlow
    Args <- LateArgs
    Addr <- LateAddr
    Sinks <- LateSinks
    NoNode = NoNode
    NoThread = NoThread
    NoPoint = NoPoint
SPECIFICATION Spec
INVARIANT FuncFound
CHECK_DEADLOCK FALSE
