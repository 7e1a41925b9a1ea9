\* Two documents, an upload and any reindex jobs, messages delivered at most once, one loss.
SPECIFICATION Spec
CONSTANTS
    Documents = {d1, d2}
    Jobs = {j1, j2, j3}
    Workers = {w1, w2}
    Batches = {b1, b2, b3}
    None = None
    Prefetch = 1
    MaxDuplicates = 0
    MaxCrashes = 1
SYMMETRY Symmetry
INVARIANT TypeOK
INVARIANT ChunksAreIndexed
INVARIANT StatusMirrorsAJob
INVARIANT SucceededIngestLeftNoStrays
INVARIANT BareCollectionHasACause
PROPERTY TerminalIsFinal
PROPERTY ImplementsContract
\* The system rests when every job has ended or was lost.
CHECK_DEADLOCK FALSE
