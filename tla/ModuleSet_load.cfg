\* Three files, one module beyond those given.
CONSTANTS
    Path = {a, b, c}
    Name = {"f", "g", "main"}
    Main = "main"
    Contents <- Programs
    MAX_MODULE_NUM = 1
    NoFunc = NoFunc
SPECIFICATION Spec
INVARIANTS TypeOK Closed MapsAgree
PROPERTY Loads
CHECK_DEADLOCK FALSE
