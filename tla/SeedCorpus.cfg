\* Three runs, any mix of visitors, scripts and harnesses, two files, one interruption.
SPECIFICATION Spec
CONSTANTS
    Procs = {p1, p2, p3}
    N = 2
    None = None
    MaxFailures = 1
SYMMETRY Symmetry
INVARIANT ReadyIsSearchable
INVARIANT DuplicatesOverlap
INVARIANT ScriptHeals
INVARIANT CompleteAtRest
\* Every process runs once.
CHECK_DEADLOCK FALSE
