\* A commit that fails after the upsert.
SPECIFICATION Spec
CONSTANTS
    Documents = {d1}
    Jobs = {j1}
    Workers = {w1}
    Batches = {b1}
    None = None
    Prefetch = 1
    MaxDuplicates = 0
    MaxCrashes = 0
SYMMETRY Symmetry
INVARIANT FailedUpsertsAreCleanedUp
\* The system rests when every job has ended or was lost.
CHECK_DEADLOCK FALSE
