\* A grader reply with an array no number can be read from.
SPECIFICATION Spec
CONSTANTS
    Chunks = {c1, c2, c3}
    WebPages = {p1, p2}
    Questions = {q1, q2}
    None = None
    TopK = 2
    MaxRetries = 2
    MaxWeb = 2
    Scale = 2
    RecursionLimit = 11
PROPERTY UnparseableReplyKeepsAll
\* A run stops when it has returned or raised.
CHECK_DEADLOCK FALSE
