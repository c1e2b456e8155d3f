CONSTANTS
    Requests = {r1, r2}
    Limit = 1
    Posts = 2
SPECIFICATION Spec
INVARIANTS TypeOK RouteBound OutageDegrades DrainedAtExit
PROPERTIES ShedOnlyWhenFull KeepsCourse ShutdownCompletes RequestsEnd
CHECK_DEADLOCK FALSE
