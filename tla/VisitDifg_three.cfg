\* Three events with up to two edges each, in every order and direction.
CONSTANTS
    Node = {a, b, c}
    Kinds <- OneKind
    MaxEdges = 2
SPECIFICATION FairSpec
INVARIANTS TypeOK InvokedOnce CoveredExpanded OnlyReturnsLag
PROPERTIES SoundTaint Settles
CHECK_DEADLOCK FALSE
