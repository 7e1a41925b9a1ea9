\* A reindex of a document whose upload has not committed.
SPECIFICATION Spec
CONSTANTS
    Documents = {d1}
    Jobs = {j1, j2}
    Workers = {w1}
    Batches = {b1}
    None = None
    Prefetch = 1
    MaxDuplicates = 0
    MaxCrashes = 0
SYMMETRY Symmetry
INVARIANT ReadyIsQueryable
\* The system rests when every job has ended or was lost.
CHECK_DEADLOCK FALSE
