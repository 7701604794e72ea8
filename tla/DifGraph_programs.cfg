\* Calls two deep and across languages, a branch and a loop; or a thread that
\* may be created again, and memory both threads write, with a
\* Python global, whose name is no address.
CONSTANTS
    Thread = {t0, t1}
    Main = t0
    Event <- BothEvent
    Info <- BothInfo
    Point <- BothEvent
    EventOf <- BothEventOf
    MainStart = "main"
    Control <- BothFlow
    Args <- BothArgs
    Addr <- BothAddr
    Sinks <- BothSinks
    NoNode = NoNode
    NoThread = NoThread
    NoPoint = NoPoint
SPECIFICATION Spec
INVARIANTS TypeOK TaintFound LocalFlow ThreadFlow
PROPERTY Visited
CHECK_DEADLOCK FALSE
