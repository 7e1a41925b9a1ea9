\* Three requests of two callers against a limit of one, over two minutes; one Redis error.
SPECIFICATION Spec
CONSTANTS
    Requests = {r1, r2, r3}
    Callers = {c1, c2}
    None = None
    Limit = 1
    MaxMinute = 1
    MaxFailures = 1
SYMMETRY Symmetry
INVARIANT AdmittedWithinLimit
INVARIANT RefusedOverLimit
INVARIANT LeaksHaveACause
INVARIANT ErrorsAreReadable
\* Every request is sent once.
CHECK_DEADLOCK FALSE
