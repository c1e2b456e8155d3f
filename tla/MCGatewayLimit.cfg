CONSTANTS
    Requests = {r1, r2}
    Limit = 1
    Posts = 2
SPECIFICATION Spec
INVARIANT QueriesBounded
CHECK_DEADLOCK FALSE
