------------------------------ MODULE QueryApi ------------------------------
(***************************************************************************)
(* The two query endpoints, POST /query and POST /query/stream, over the   *)
(* conversations and messages in Postgres and the Redis cache of answers   *)
(* to first questions.  The graph they run is CorrectiveRag; here a run    *)
(* yields an answer, named by the request it was made for, or raises.      *)
(*                                                                         *)
(* POST /query is one transaction, open while the graph runs.  The stream  *)
(* commits the question first and the answer in a transaction of its own,  *)
(* before the event that shows it; a client may be gone at every event.    *)
(* The created_at of a row is the start of the transaction that wrote it,  *)
(* so the two turns of POST /query carry the same time.                    *)
(*                                                                         *)
(* A conversation is named by the request that opened it.  Every user has  *)
(* a workspace of their own, so a user stands for the tenant as well.      *)
(* Questions are what the cache key tells apart.  Token events are left    *)
(* out.                                                                    *)
(***************************************************************************)
EXTENDS Integers, FiniteSets, Sequences, SequencesExt

CONSTANTS
    Requests, Users, Questions, None,
    QuestionLength,  \* characters of a question
    AnswerLengths,   \* characters of an answer
    HistoryMax,      \* settings.history_max_messages
    Budget,          \* settings.history_char_budget
    Caching,         \* answer_cache_seconds > 0
    MaxFailures      \* bound: calls that raise, processes and clients lost

Endpoints == {"query", "stream"}
Message == Requests \X {"user", "assistant"}
Turn == [user : Users, endpoint : Endpoints, question : Questions, conversation : Requests]

ASSUME QueryAssumption ==
    /\ IsFiniteSet(Requests) /\ None \notin Requests \cup Turn
    /\ QuestionLength \in Nat \ {0} /\ AnswerLengths \subseteq Nat
    /\ HistoryMax \in Nat \ {0} /\ Budget \in Nat
    /\ Caching \in BOOLEAN /\ MaxFailures \in Nat

VARIABLES
    conversations,  \* committed Conversation rows
    stamp,          \* created_at of the committed Message rows, 0 before
    cache,          \* Redis: whose answer to a user's question is cached
    turn,           \* the request body and the conversation it was given
    pc, began,      \* where a handler is, and when its transaction began
    history,        \* what load_recent_history returned
    answer,         \* the request whose graph run the answer comes from
    length,         \* characters of the answer of a request's graph run
    seen,           \* what the client received: "answer", "done", "error"
    context,        \* turns of the conversation its client had seen answered
    clock,          \* transactions begun
    failures        \* at most MaxFailures

rows    == <<conversations, stamp>>
handler == <<turn, began, history, answer, length, context>>
vars    == <<rows, cache, handler, pc, seen, clock, failures>>

Init ==
    /\ conversations = {}
    /\ stamp = [m \in Message |-> 0]
    /\ cache = [u \in Users |-> [q \in Questions |-> None]]
    /\ turn = [r \in Requests |-> None]
    /\ pc = [r \in Requests |-> "new"]
    /\ began = [r \in Requests |-> 0]
    /\ history = [r \in Requests |-> << >>]
    /\ answer = [r \in Requests |-> None]
    /\ length = [r \in Requests |-> 0]
    /\ seen = [r \in Requests |-> {}]
    /\ context = [r \in Requests |-> {}]
    /\ clock = 0 /\ failures = 0

Streams(r) == turn[r].endpoint = "stream"
Opens(r)   == turn[r].conversation = r
Saved      == {m \in Message : stamp[m] > 0}

\* The messages of a conversation, and their length.
Thread(c) == {m \in Saved : turn[m[1]].conversation = c}
Size(m)   == IF m[2] = "user" THEN QuestionLength ELSE length[answer[m[1]]]

\* The sum of a sequence of sizes, from its end.
SumOf(sizes) ==
    LET last[i \in 0 .. Len(sizes)] ==
            IF i = 0 THEN 0 ELSE last[i - 1] + sizes[Len(sizes) + 1 - i]
    IN last[Len(sizes)]

Total(msgs) == SumOf([i \in 1 .. Len(msgs) |-> Size(msgs[i])])

Proceed(r, step) == pc' = [pc EXCEPT ![r] = step] /\ UNCHANGED <<seen, failures>>

Show(r, event, step) ==
    /\ seen' = [seen EXCEPT ![r] = @ \cup {event}]
    /\ pc' = [pc EXCEPT ![r] = step]
    /\ UNCHANGED failures

\* A 500 response, or the error event of the stream.  What is not committed is
\* rolled back.
Fail(r) ==
    /\ failures < MaxFailures
    /\ failures' = failures + 1
    /\ pc' = [pc EXCEPT ![r] = "over"]
    /\ seen' = [seen EXCEPT ![r] = @ \cup {"error"}]

\* A commit that took effect may still raise (a lost response).
Committed(r, step) == Proceed(r, step) \/ Fail(r)

-----------------------------------------------------------------------------
(* Both endpoints: the conversation, its history, the question.            *)

Known(c) == \E x \in Requests : turn[x] # None /\ turn[x].conversation = c /\ "answer" \in seen[x]

Begin(r, t) ==
    /\ pc[r] = "new"
    /\ turn' = [turn EXCEPT ![r] = t]
    /\ clock' = clock + 1
    /\ began' = [began EXCEPT ![r] = clock']
    /\ context' = [context EXCEPT ![r] =
           {x \in Requests : /\ turn[x] # None /\ turn[x].conversation = t.conversation
                             /\ "answer" \in seen[x]}]
    /\ Proceed(r, "load")
    /\ UNCHANGED <<rows, cache, history, answer, length>>

\* Without a conversation_id a conversation is inserted, and not yet committed.
Open(r, t) == t.conversation = r /\ Begin(r, t)

\* Fault: any conversation that exists may be continued.
ContinueAny(r, t) ==
    /\ t.conversation \in conversations /\ Known(t.conversation)
    /\ Begin(r, t)

Continue(r, t) ==
    /\ t.conversation \in conversations /\ Known(t.conversation)
    /\ turn[t.conversation].user = t.user
    /\ Begin(r, t)

\* The conversation is another user's: 404.
NotFound(r, t) ==
    /\ pc[r] = "new"
    /\ t.conversation \in conversations /\ Known(t.conversation)
    /\ turn[t.conversation].user # t.user
    /\ Show(r, "error", "over")
    /\ UNCHANGED <<rows, cache, handler, clock>>

\* The newest messages of c that the limit allows, oldest first.  Rows of the same
\* time come in any order.
Latest(c) ==
    LET n == Min({Cardinality(Thread(c)), HistoryMax})
    IN  {s \in [1 .. n -> Thread(c)] :
            /\ \A i, j \in 1 .. n : i < j => s[i] # s[j] /\ stamp[s[i]] <= stamp[s[j]]
            /\ \A m \in Thread(c) \ Range(s) : \A i \in 1 .. n : stamp[m] <= stamp[s[i]]}

Fits(s) == Total(s) <= Budget

\* Fault: at most one message is dropped.
TrimOnce(s) == IF Fits(s) THEN {s} ELSE {Tail(s)}

\* The longest suffix within the character budget.
Trim(s) ==
    {SubSeq(s, i, Len(s)) : i \in {k \in 1 .. Len(s) + 1 :
        Fits(SubSeq(s, k, Len(s))) /\ \A j \in 1 .. k - 1 : ~Fits(SubSeq(s, j, Len(s)))}}

\* load_recent_history, and the flush of the question.
Load(r) ==
    /\ pc[r] = "load"
    /\ \E s \in Latest(turn[r].conversation) : \E h \in Trim(s) : history' = [history EXCEPT ![r] = h]
    /\ Proceed(r, IF Streams(r) THEN "ask" ELSE "run")
    /\ UNCHANGED <<rows, cache, turn, began, answer, length, context, clock>>

-----------------------------------------------------------------------------
(* The graph.                                                              *)

Run(r) ==
    /\ pc[r] = "run"
    /\ answer' = [answer EXCEPT ![r] = r]
    /\ \E n \in AnswerLengths : length' = [length EXCEPT ![r] = n]
    /\ Proceed(r, IF Streams(r) THEN "persist" ELSE "commit")
    /\ UNCHANGED <<rows, cache, turn, began, history, context, clock>>

-----------------------------------------------------------------------------
(* POST /query: one commit for everything, then the response.              *)

\* Fault: the question is committed on its own before the graph runs.
CommitQuestionOnly(r) ==
    /\ pc[r] = "commit"
    /\ conversations' = conversations \cup {turn[r].conversation}
    /\ stamp' = [stamp EXCEPT ![<<r, "user">>] = began[r]]
    /\ Committed(r, "respond")
    /\ UNCHANGED <<cache, handler, clock>>

Commit(r) ==
    /\ pc[r] = "commit"
    /\ conversations' = conversations \cup {turn[r].conversation}
    /\ stamp' = [stamp EXCEPT ![<<r, "user">>] = began[r], ![<<r, "assistant">>] = began[r]]
    /\ Committed(r, "respond")
    /\ UNCHANGED <<cache, handler, clock>>

Respond(r) ==
    /\ pc[r] = "respond"
    /\ Show(r, "answer", "over")
    /\ UNCHANGED <<rows, cache, handler, clock>>

-----------------------------------------------------------------------------
(* POST /query/stream.                                                     *)

\* Fault: follow-up questions are cached as well.
CacheableAlways(r) == Caching

\* Only first questions are looked up and stored.
Cacheable(r) == Caching /\ Opens(r)

CommitQuestion(r) ==
    /\ pc[r] = "ask"
    /\ conversations' = conversations \cup {turn[r].conversation}
    /\ stamp' = [stamp EXCEPT ![<<r, "user">>] = began[r]]
    /\ Committed(r, IF Cacheable(r) THEN "lookup" ELSE "run")
    /\ UNCHANGED <<cache, handler, clock>>

Hit(r) ==
    /\ pc[r] = "lookup"
    /\ cache[turn[r].user][turn[r].question] # None
    /\ answer' = [answer EXCEPT ![r] = cache[turn[r].user][turn[r].question]]
    /\ Proceed(r, "persist")
    /\ UNCHANGED <<rows, cache, turn, began, history, length, context, clock>>

\* Nothing is cached, or Redis does not answer.
Miss(r) ==
    /\ pc[r] = "lookup"
    /\ \/ cache[turn[r].user][turn[r].question] = None /\ UNCHANGED failures
       \/ failures < MaxFailures /\ failures' = failures + 1
    /\ pc' = [pc EXCEPT ![r] = "run"]
    /\ UNCHANGED <<rows, cache, handler, seen, clock>>

\* Fault: the event is emitted before the answer is persisted.
PersistLate(r) ==
    /\ pc[r] = "persist"
    /\ \/ /\ "answer" \notin seen[r]
          /\ Show(r, "answer", "persist")
          /\ UNCHANGED <<rows, clock>>
       \/ /\ "answer" \in seen[r]
          /\ clock' = clock + 1
          /\ stamp' = [stamp EXCEPT ![<<r, "assistant">>] = clock']
          /\ Committed(r, "emit")
          /\ UNCHANGED conversations
    /\ UNCHANGED <<cache, handler>>

\* add_message_sync commits the answer in a session of its own.
Persist(r) ==
    /\ pc[r] = "persist"
    /\ clock' = clock + 1
    /\ stamp' = [stamp EXCEPT ![<<r, "assistant">>] = clock']
    /\ Committed(r, "emit")
    /\ UNCHANGED <<conversations, cache, handler>>

\* The citations event.  An answer from the cache is not stored again.
Emit(r) ==
    /\ pc[r] = "emit"
    /\ Show(r, "answer", IF Cacheable(r) /\ answer[r] = r THEN "store" ELSE "finish")
    /\ UNCHANGED <<rows, cache, handler, clock>>

\* Fault: a Redis error is raised.
StoreOrRaise(r) ==
    /\ pc[r] = "store"
    /\ \/ /\ cache' = [cache EXCEPT ![turn[r].user][turn[r].question] = answer[r]]
          /\ Proceed(r, "finish")
       \/ Fail(r) /\ UNCHANGED cache
    /\ UNCHANGED <<rows, handler, clock>>

\* A Redis error is swallowed.
Store(r) ==
    /\ pc[r] = "store"
    /\ \/ /\ cache' = [cache EXCEPT ![turn[r].user][turn[r].question] = answer[r]]
          /\ UNCHANGED failures
       \/ failures < MaxFailures /\ failures' = failures + 1 /\ UNCHANGED cache
    /\ pc' = [pc EXCEPT ![r] = "finish"]
    /\ UNCHANGED <<rows, handler, seen, clock>>

Finish(r) ==
    /\ pc[r] = "finish"
    /\ Show(r, "done", "over")
    /\ UNCHANGED <<rows, cache, handler, clock>>

-----------------------------------------------------------------------------
(* Failures and time.                                                      *)

\* A database call or the graph raises, without effect.
CallFails(r) ==
    /\ pc[r] \in {"load", "ask", "run", "commit", "persist"}
    /\ Fail(r)
    /\ UNCHANGED <<rows, cache, handler, clock>>

\* The process dies, or the client of a stream is gone and its generator is dropped.
Abandon(r) ==
    /\ pc[r] \notin {"new", "over"}
    /\ failures < MaxFailures
    /\ failures' = failures + 1
    /\ pc' = [pc EXCEPT ![r] = "over"]
    /\ UNCHANGED <<rows, cache, handler, seen, clock>>

Expire(u, q) ==
    /\ cache[u][q] # None
    /\ cache' = [cache EXCEPT ![u][q] = None]
    /\ UNCHANGED <<rows, handler, pc, seen, clock, failures>>

-----------------------------------------------------------------------------
Step(r) ==
    \/ Load(r) \/ Run(r)
    \/ Commit(r) \/ Respond(r)
    \/ CommitQuestion(r) \/ Hit(r) \/ Miss(r) \/ Persist(r) \/ Emit(r) \/ Store(r) \/ Finish(r)

Next ==
    \/ \E r \in Requests, t \in Turn : Open(r, t) \/ Continue(r, t) \/ NotFound(r, t)
    \/ \E r \in Requests : Step(r) \/ CallFails(r) \/ Abandon(r)
    \/ \E u \in Users, q \in Questions : Expire(u, q)

Spec == Init /\ [][Next]_vars

-----------------------------------------------------------------------------
(* Properties.                                                             *)

TypeOK ==
    /\ conversations \subseteq Requests
    /\ stamp \in [Message -> 0 .. clock]
    /\ cache \in [Users -> [Questions -> Requests \cup {None}]]
    /\ turn \in [Requests -> Turn \cup {None}]
    /\ pc \in [Requests -> {"new", "load", "ask", "lookup", "run", "commit", "respond",
                            "persist", "emit", "store", "finish", "over"}]
    /\ began \in [Requests -> 0 .. clock]
    /\ history \in [Requests -> Seq(Message)]
    /\ answer \in [Requests -> Requests \cup {None}]
    /\ length \in [Requests -> AnswerLengths \cup {0}]
    /\ seen \in [Requests -> SUBSET {"answer", "done", "error"}]
    /\ context \in [Requests -> SUBSET Requests]
    /\ clock \in Nat
    /\ failures \in 0 .. MaxFailures

\* Rows survive failures only in whole units: an answer has its question, not later
\* than itself, in a conversation that exists; no conversation is empty; and the
\* question of POST /query is there if and only if its answer is.
TurnsAreWhole ==
    /\ \A r \in Requests :
        /\ <<r, "assistant">> \in Saved =>
            <<r, "user">> \in Saved /\ stamp[<<r, "user">>] <= stamp[<<r, "assistant">>]
        /\ <<r, "user">> \in Saved =>
            /\ turn[r].conversation \in conversations
            /\ ~Streams(r) => <<r, "assistant">> \in Saved
    /\ \A c \in conversations : Thread(c) # {}

\* What a question is answered with: the prompt holds messages of the same user and
\* conversation only, whatever conversation ids are passed around.
OwnHistoryOnly ==
    \A r \in Requests : \A m \in Range(history[r]) :
        /\ m \in Thread(turn[r].conversation)
        /\ turn[m[1]].user = turn[r].user

\* conversation_service.py: the history is bounded both ways, in messages and
\* characters, however long a conversation and its messages get.
HistoryIsBounded ==
    \A r \in Requests : Len(history[r]) <= HistoryMax /\ Total(history[r]) <= Budget

\* An answer that another request's run produced was an answer to the same question
\* of the same user, generated without history, for a question without history.
CachedAnswersAreReusable ==
    \A r \in Requests : answer[r] \notin {None, r} =>
        LET x == answer[r] IN
        /\ turn[x].user = turn[r].user /\ turn[x].question = turn[r].question
        /\ history[x] = << >> /\ history[r] = << >>

\* A client that has seen an answer finds it in the history of its next question,
\* unless the limits leave it out in favour of messages no older.
ReadsItsOwnWrites ==
    \A r \in Requests : pc[r] \in {"run", "commit", "respond", "ask"} =>
        \A x \in context[r] :
            \/ <<x, "assistant">> \in Range(history[r])
            \/ Len(history[r]) = HistoryMax
            \/ \E m \in Thread(turn[r].conversation) \ Range(history[r]) :
                /\ stamp[m] >= stamp[<<x, "assistant">>] /\ <<x, "assistant">> \in Saved
                /\ Total(history[r]) + Size(m) > Budget

\* A request ends one way: no error follows an answer, nothing says done without
\* one, and an error of the cache is never shown.
OneOutcome ==
    \A r \in Requests :
        /\ ~ {"answer", "error"} \subseteq seen[r]
        /\ "done" \in seen[r] => "answer" \in seen[r]

\* What the docstring of load_recent_history says: oldest first.  No question comes
\* after its own answer.
OldestFirst ==
    \A r \in Requests : \A i, j \in DOMAIN history[r] :
        i < j => ~ (history[r][i][2] = "assistant" /\ history[r][j] = <<history[r][i][1], "user">>)
=============================================================================
