\* One program: explicit, decorated, recursive, foreign and implicit calls, an
\* exception at any call, and a second thread.
CONSTANTS
    Func <- MCFunc
    Body <- BodyOf
    Params <- ParamsOf
    Unnamed <- MCUnnamed
    Hidden <- MCHidden
    Methods <- MCMethods
    Within <- MCWithin
    Defs <- MCDefs
    Criteria <- MCCriteria
    SrcArgs <- ArgsOf
    Dotted <- MCDotted
    ClassOf <- MCClassOf
    Thread = {t0, t1}
    Main = t0
    Top = "pyinspect"
    None = None
    MaxDepth = 4
SPECIFICATION Spec
INVARIANTS TypeOK Sound Traced Ordered
CONSTRAINT FewMishaps
CHECK_DEADLOCK FALSE
