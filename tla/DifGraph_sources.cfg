\* Two sources in one function.
CONSTANTS
    Thread = {t0}
    Main = t0
    Event <- SourcesEvent
    Info <- SourcesInfo
    Point <- SourcesEvent
    EventOf <- SourcesEventOf
    MainStart = "main"
    Control <- SourcesFlow
    Args <- SourcesArgs
    Addr <- SourcesAddr
    Sinks <- NoSinks
    NoNode = NoNode
    NoThread = NoThread
    NoPoint = NoPoint
SPECIFICATION Spec
INVARIANT SourcesVisited
CHECK_DEADLOCK FALSE
