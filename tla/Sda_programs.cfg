SPECIFICATION Spec
CONSTANTS
    Session <- MCSession
    MAX_ITERATE = 2
    Reach <- MCReach
    NoProgram = NoProgram
    NoValue = NoValue
    NoFunc = NoFunc
CHECK_DEADLOCK FALSE
INVARIANTS TypeOK NoReentry SelectedRecorded DataFollowed OnlyConnected
PROPERTY Terminates
