SPECIFICATION Spec
CONSTANTS
    Input <- MCInput
    MAX_STEPS = 12
    NoValue = NoValue
    NoFunc = NoFunc
INVARIANTS TypeOK RoundTrip TraceWhole
CHECK_DEADLOCK FALSE
