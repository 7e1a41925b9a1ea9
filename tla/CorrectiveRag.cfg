\* Retry caps of 0 to 3, with and without web search; up to the default of 2 a run
\* fits into the recursion limit exactly, with 3 it does not.
SPECIFICATION FairSpec
CONSTANTS
    Chunks = {c1, c2, c3}
    WebPages = {p1, p2}
    Questions = {q1}
    None = None
    TopK = 2
    MaxRetries = 3
    MaxWeb = 2
    Scale = 2
    RecursionLimit = 11
INVARIANT CitationsWereInThePrompt
INVARIANT WorkIsBounded
INVARIANT DegradesInOrder
INVARIANT StreamMatchesAnswer
PROPERTY DocumentsSettle
PROPERTY ImplementsContract
PROPERTY RunEnds
\* A run stops when it has returned or raised.
CHECK_DEADLOCK FALSE
