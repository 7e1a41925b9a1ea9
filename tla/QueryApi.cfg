\* Three requests of two users, the answer cache on, one failure.  A question and a short
\* answer fit the budget of a history exactly, a long answer alone is more than it.
SPECIFICATION Spec
CONSTANTS
    Requests = {r1, r2, r3}
    Users = {u1, u2}
    Questions = {q1}
    None = None
    QuestionLength = 1
    AnswerLengths = {2, 4}
    HistoryMax = 3
    Budget = 3
    Caching = TRUE
    MaxFailures = 1
SYMMETRY Symmetry
INVARIANT TurnsAreWhole
INVARIANT OwnHistoryOnly
INVARIANT HistoryIsBounded
INVARIANT CachedAnswersAreReusable
INVARIANT ReadsItsOwnWrites
INVARIANT OneOutcome
\* The system rests when every request is over.
CHECK_DEADLOCK FALSE
