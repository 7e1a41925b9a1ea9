\* Two questions of one user, one after the other.
SPECIFICATION Spec
CONSTANTS
    Requests = {r1, r2}
    Users = {u1}
    Questions = {q1}
    None = None
    QuestionLength = 1
    AnswerLengths = {1, 3}
    HistoryMax = 3
    Budget = 3
    Caching = TRUE
    MaxFailures = 1
INVARIANT OldestFirst
\* The system rests when every request is over.
CHECK_DEADLOCK FALSE
