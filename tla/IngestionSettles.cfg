\* One document, a loss and a redelivery: every job settles, and ends if none is lost;
\* two runs of one upload replace no chunk rows, and leave both stores in agreement if it
\* SUCCEEDED.
SPECIFICATION FairSpec
CONSTANTS
    Documents = {d1}
    Jobs = {j1, j2}
    Workers = {w1, w2}
    Batches = {b1, b2, b3}
    None = None
    Prefetch = 1
    MaxDuplicates = 1
    MaxCrashes = 1
INVARIANT SucceededIngestIsSearchable
PROPERTY JobsSettle
PROPERTY JobsTerminate
PROPERTY ChunksNeverReplaced
\* The system rests when every job has ended or was lost.
CHECK_DEADLOCK FALSE
