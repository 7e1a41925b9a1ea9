---------------------------- MODULE QueryApiProofs ----------------------------
(***************************************************************************)
(* Theorems about the two query endpoints, for any number of requests,     *)
(* users and questions, any limits and any number of failures.             *)
(*                                                                         *)
(* The properties relate rows, answers and cache entries of different      *)
(* requests; QueryInv adds where a handler must be for the rows it has     *)
(* written (Written), whose a conversation is (Threads), and what is known *)
(* of the run a cached answer comes from (Reused).  MemoryInv adds that a  *)
(* saved message never changes, OrderInv the times of the messages a       *)
(* history is made of.                                                     *)
(***************************************************************************)
EXTENDS QueryApi, TLAPS, FiniteSetTheorems

AtItsStep ==
    \A r \in Requests :
        /\ pc[r] = "new" => turn[r] = None /\ history[r] = << >>
        /\ pc[r] \notin {"new", "over"} => turn[r] # None /\ began[r] > 0
        /\ pc[r] \in {"ask", "lookup", "persist", "emit", "store", "finish"} => Streams(r)
        /\ pc[r] \in {"commit", "respond"} => ~Streams(r)
        /\ pc[r] \in {"lookup", "store"} => Opens(r)
        /\ pc[r] \in {"new", "load", "ask", "lookup", "run"} => answer[r] = None
        /\ pc[r] = "store" => answer[r] = r

\* What the client of an open request has seen.
Shown ==
    \A r \in Requests :
        /\ pc[r] \notin {"store", "finish", "over"} => seen[r] = {}
        /\ pc[r] \in {"store", "finish"} => seen[r] = {"answer"}

Written ==
    \A r \in Requests :
        /\ <<r, "user">> \in Saved => turn[r] # None /\ pc[r] \notin {"new", "load", "ask"}
        /\ pc[r] \in {"lookup", "persist", "emit", "store", "finish"} => <<r, "user">> \in Saved
        /\ pc[r] = "run" /\ Streams(r) => <<r, "user">> \in Saved

\* A conversation belongs to the user of the request that opened it, and only a
\* committed one is continued.
Threads ==
    /\ \A r \in Requests : turn[r] # None =>
        LET c == turn[r].conversation IN
        /\ turn[c] # None /\ turn[c].conversation = c /\ turn[c].user = turn[r].user
        /\ c # r => c \in conversations
    /\ \A c \in conversations : pc[c] \notin {"new", "load"}

\* A run that may be reused answered a first question.
Source(x) == answer[x] = x /\ turn[x] # None /\ history[x] = << >>

Reused ==
    /\ \A u \in Users, q \in Questions : cache[u][q] # None =>
        LET x == cache[u][q] IN Source(x) /\ turn[x].user = u /\ turn[x].question = q
    /\ \A r \in Requests : answer[r] \notin {None, r} => Source(answer[r])
    /\ \A r \in Requests : turn[r] # None /\ Opens(r) => history[r] = << >>

Rows == Written /\ Threads /\ TurnsAreWhole

QueryInv ==
    /\ TypeOK /\ AtItsStep /\ Shown
    /\ Rows /\ OwnHistoryOnly
    /\ Reused /\ CachedAnswersAreReusable
    /\ OneOutcome

USE QueryAssumption

-----------------------------------------------------------------------------
\* The history that is loaded is a sequence of messages of the conversation.
LEMMA LoadedHistory ==
    ASSUME NEW c, NEW s \in Latest(c), NEW h \in Trim(s)
    PROVE  h \in Seq(Thread(c)) /\ Range(h) \subseteq Thread(c) /\ Thread(c) \subseteq Message
<1> DEFINE n == Min({Cardinality(Thread(c)), HistoryMax})
<1>1. Thread(c) \subseteq Message
  BY DEF Thread, Saved
<1>2. Cardinality(Thread(c)) \in Nat
  <2>1. IsFiniteSet({"user", "assistant"})
    <3>1. IsFiniteSet({"user"} \cup {"assistant"})
      BY FS_Singleton, FS_AddElement
    <3> QED BY <3>1
  <2>2. IsFiniteSet(Message)
    BY <2>1, FS_Product DEF Message
  <2> QED BY <1>1, <2>2, FS_Subset, FS_CardinalityType
<1>3. n \in Nat
  BY <1>2 DEF Min
<1>4. s \in Seq(Thread(c)) /\ Len(s) \in Nat
  <2>1. s \in [1 .. n -> Thread(c)]
    BY DEF Latest
  <2> HIDE DEF n
  <2> QED BY <1>3, <2>1
<1>5. PICK i \in 1 .. Len(s) + 1 : h = SubSeq(s, i, Len(s))
  BY DEF Trim
<1>6. h \in Seq(Thread(c))
  BY <1>4, <1>5
<1>7. Range(h) \subseteq Thread(c)
  BY <1>6 DEF Range
<1> QED BY <1>1, <1>6, <1>7

\* The ways a handler moves on.
Steps == {"new", "load", "ask", "lookup", "run", "commit", "respond", "persist", "emit",
          "store", "finish", "over"}
Events == {"answer", "done", "error"}

LEMMA Moves ==
    ASSUME TypeOK, NEW r \in Requests, NEW step \in Steps, NEW event \in Events,
           Committed(r, step) \/ Show(r, event, step)
    PROVE  pc' \in [Requests -> Steps] /\ seen' \in [Requests -> SUBSET Events]
           /\ failures' \in 0 .. MaxFailures
<1>1. "over" \in Steps /\ "error" \in Events
  BY DEF Steps, Events
<1>2. pc \in [Requests -> Steps] /\ seen \in [Requests -> SUBSET Events] /\ failures \in 0 .. MaxFailures
  BY DEF TypeOK, Steps, Events
<1>3. CASE Proceed(r, step)
  BY <1>2, <1>3 DEF Proceed
<1>4. CASE Fail(r)
  <2>1. failures' \in 0 .. MaxFailures
    BY <1>2, <1>4 DEF Fail
  <2> QED BY <1>1, <1>2, <1>4, <2>1 DEF Fail
<1>5. CASE Show(r, event, step)
  BY <1>2, <1>5 DEF Show
<1> QED BY <1>3, <1>4, <1>5 DEF Committed

LEMMA CacheTyped ==
    ASSUME NEW f \in [Users -> [Questions -> Requests \cup {None}]],
           NEW u \in Users, NEW q \in Questions, NEW x \in Requests \cup {None}
    PROVE  [f EXCEPT ![u][q] = x] \in [Users -> [Questions -> Requests \cup {None}]]
<1>1. [f[u] EXCEPT ![q] = x] \in [Questions -> Requests \cup {None}]
  OBVIOUS
<1> QED BY <1>1

\* Every variable keeps its type.
LEMMA Types == TypeOK /\ AtItsStep /\ Next => TypeOK'
<1> SUFFICES ASSUME TypeOK, AtItsStep, Next PROVE TypeOK'
  OBVIOUS
<1> USE DEF rows, handler
<1>a. {"load", "ask", "run", "persist", "commit", "respond", "lookup", "emit", "store",
       "finish", "over"} \subseteq Steps /\ {"answer", "done", "error"} = Events
  BY DEF Steps, Events
<1>1. ASSUME NEW r \in Requests, NEW t \in Turn, Begin(r, t) PROVE TypeOK'
  <2>1. Committed(r, "load")
    BY <1>1 DEF Begin, Committed
  <2>2. clock' = clock + 1 /\ clock \in Nat
    BY <1>1 DEF Begin, TypeOK
  <2>3. stamp' \in [Message -> 0 .. clock'] /\ began' \in [Requests -> 0 .. clock']
    BY <1>1, <2>2 DEF Begin, TypeOK
  <2> QED BY <1>1, <1>a, <2>1, <2>2, <2>3, Moves DEF Begin, TypeOK, Steps, Events
<1>2. ASSUME NEW r \in Requests, NEW t \in Turn, NotFound(r, t) PROVE TypeOK'
  BY <1>2, <1>a, Moves DEF NotFound, TypeOK, Steps, Events
<1>3. ASSUME NEW r \in Requests, Load(r) PROVE TypeOK'
  <2>1. PICK s \in Latest(turn[r].conversation) :
            \E h \in Trim(s) : history' = [history EXCEPT ![r] = h]
    BY <1>3 DEF Load
  <2>2. PICK h \in Trim(s) : history' = [history EXCEPT ![r] = h]
    BY <2>1
  <2>3. h \in Seq(Message)
    BY LoadedHistory
  <2>4. history' \in [Requests -> Seq(Message)]
    BY <2>2, <2>3 DEF TypeOK
  <2>5. Committed(r, IF Streams(r) THEN "ask" ELSE "run")
    BY <1>3 DEF Load, Committed
  <2> QED BY <1>3, <1>a, <2>4, <2>5, Moves DEF Load, TypeOK, Steps, Events
<1>4. ASSUME NEW r \in Requests, Run(r) PROVE TypeOK'
  <2>1. Committed(r, IF Streams(r) THEN "persist" ELSE "commit")
    BY <1>4 DEF Run, Committed
  <2> QED BY <1>4, <1>a, <2>1, Moves DEF Run, TypeOK, Steps, Events
<1>5. ASSUME NEW r \in Requests, Commit(r) PROVE TypeOK'
  <2>1. <<r, "user">> \in Message /\ <<r, "assistant">> \in Message
    BY DEF Message
  <2>2. stamp' \in [Message -> 0 .. clock'] /\ conversations' \subseteq Requests
    BY <1>5, <2>1 DEF Commit, TypeOK, AtItsStep, Turn
  <2> QED BY <1>5, <1>a, <2>2, Moves DEF Commit, TypeOK, Steps, Events
<1>6. ASSUME NEW r \in Requests, CommitQuestion(r) PROVE TypeOK'
  <2>1. stamp' \in [Message -> 0 .. clock'] /\ conversations' \subseteq Requests
    BY <1>6 DEF CommitQuestion, TypeOK, AtItsStep, Message, Turn
  <2> QED BY <1>6, <1>a, <2>1, Moves DEF CommitQuestion, TypeOK, Steps, Events
<1>7. ASSUME NEW r \in Requests, Persist(r) PROVE TypeOK'
  <2>1. clock' = clock + 1 /\ clock \in Nat
    BY <1>7 DEF Persist, TypeOK
  <2>2. stamp' \in [Message -> 0 .. clock'] /\ began \in [Requests -> 0 .. clock']
    BY <1>7, <2>1 DEF Persist, TypeOK, Message
  <2> QED BY <1>7, <1>a, <2>1, <2>2, Moves DEF Persist, TypeOK, Steps, Events
<1>8. ASSUME NEW r \in Requests, Hit(r) PROVE TypeOK'
  <2>1. Committed(r, "persist")
    BY <1>8 DEF Hit, Committed
  <2>2. cache[turn[r].user][turn[r].question] \in Requests
    BY <1>8 DEF Hit, TypeOK, AtItsStep, Turn
  <2> QED BY <1>8, <1>a, <2>1, <2>2, Moves DEF Hit, TypeOK, Steps, Events
<1>9. ASSUME NEW r \in Requests, Respond(r) \/ Emit(r) \/ Finish(r) PROVE TypeOK'
  BY <1>9, <1>a, Moves DEF Respond, Emit, Finish, TypeOK, Steps, Events
<1>10. ASSUME NEW r \in Requests, CallFails(r) \/ Abandon(r) \/ Miss(r) PROVE TypeOK'
  <2>1. /\ pc' \in [Requests -> Steps] /\ seen' \in [Requests -> SUBSET Events]
        /\ failures' \in 0 .. MaxFailures
    <3>1. CASE CallFails(r)
      BY <1>a, <3>1, Moves DEF CallFails, Committed
    <3>2. failures + 1 \in 0 .. MaxFailures \/ ~(failures < MaxFailures)
      BY DEF TypeOK
    <3>3. pc \in [Requests -> Steps] /\ seen \in [Requests -> SUBSET Events] /\ failures \in 0 .. MaxFailures
      BY DEF TypeOK, Steps, Events
    <3>4. CASE Abandon(r) \/ Miss(r)
      BY <1>a, <3>2, <3>3, <3>4 DEF Abandon, Miss
    <3> QED BY <1>10, <3>1, <3>4
  <2> QED BY <1>10, <2>1 DEF CallFails, Abandon, Miss, TypeOK, Steps, Events
<1>11. ASSUME NEW r \in Requests, Store(r) PROVE TypeOK'
  <2>1. turn[r].user \in Users /\ turn[r].question \in Questions
    BY <1>11 DEF Store, TypeOK, AtItsStep, Turn
  <2>2. cache' \in [Users -> [Questions -> Requests \cup {None}]]
    <3>1. answer[r] \in Requests \cup {None} /\ cache \in [Users -> [Questions -> Requests \cup {None}]]
      BY DEF TypeOK
    <3>2. \/ cache' = [cache EXCEPT ![turn[r].user][turn[r].question] = answer[r]]
          \/ cache' = cache
      BY <1>11 DEF Store
    <3> HIDE <1>11
    <3> QED BY <2>1, <3>1, <3>2, CacheTyped
  <2>3. failures' \in 0 .. MaxFailures
    BY <1>11 DEF Store, TypeOK
  <2> QED BY <1>11, <2>2, <2>3 DEF Store, TypeOK
<1>12. ASSUME NEW u \in Users, NEW q \in Questions, Expire(u, q) PROVE TypeOK'
  <2>1. cache' \in [Users -> [Questions -> Requests \cup {None}]]
    BY <1>12, CacheTyped DEF Expire, TypeOK
  <2> QED BY <1>12, <2>1 DEF Expire, TypeOK
<1> QED
  BY <1>1, <1>2, <1>3, <1>4, <1>5, <1>6, <1>7, <1>8, <1>9, <1>10, <1>11, <1>12
  DEF Next, Step, Open, Continue

-----------------------------------------------------------------------------
\* Where a handler is, and what it has by then.
LEMMA AtItsStepKept == QueryInv /\ Next => AtItsStep'
<1> SUFFICES ASSUME QueryInv, Next PROVE AtItsStep'
  OBVIOUS
<1> USE DEF QueryInv, TypeOK, AtItsStep, Proceed, Show, Fail, Committed, rows, handler, Streams, Opens
<1>1. ASSUME NEW r \in Requests, NEW t \in Turn, Begin(r, t) PROVE AtItsStep'
  BY <1>1 DEF Begin
<1>2. ASSUME NEW r \in Requests, NEW t \in Turn, NotFound(r, t) PROVE AtItsStep'
  BY <1>2 DEF NotFound
<1>3. ASSUME NEW r \in Requests, Load(r) PROVE AtItsStep'
  BY <1>3 DEF Load
<1>4. ASSUME NEW r \in Requests, Run(r) PROVE AtItsStep'
  BY <1>4 DEF Run
<1>5. ASSUME NEW r \in Requests, Commit(r) \/ CommitQuestion(r) \/ Persist(r) PROVE AtItsStep'
  BY <1>5 DEF Commit, CommitQuestion, Persist, Cacheable
<1>6. ASSUME NEW r \in Requests, Hit(r) \/ Miss(r) \/ Store(r) PROVE AtItsStep'
  BY <1>6 DEF Hit, Miss, Store
<1>7. ASSUME NEW r \in Requests, Respond(r) \/ Emit(r) \/ Finish(r) PROVE AtItsStep'
  BY <1>7 DEF Respond, Emit, Finish, Cacheable
<1>8. ASSUME NEW r \in Requests, CallFails(r) \/ Abandon(r) PROVE AtItsStep'
  BY <1>8 DEF CallFails, Abandon
<1>9. ASSUME NEW u \in Users, NEW q \in Questions, Expire(u, q) PROVE AtItsStep'
  BY <1>9 DEF Expire
<1> QED
  BY <1>1, <1>2, <1>3, <1>4, <1>5, <1>6, <1>7, <1>8, <1>9 DEF Next, Step, Open, Continue

\* Nothing is shown before the answer is, and no error after it.
LEMMA ShownKept == QueryInv /\ Next => Shown' /\ OneOutcome'
<1> SUFFICES ASSUME QueryInv, Next PROVE Shown' /\ OneOutcome'
  OBVIOUS
<1>a. /\ pc \in [Requests -> Steps] /\ seen \in [Requests -> SUBSET Events]
      /\ Shown /\ OneOutcome
  BY DEF QueryInv, TypeOK, Steps, Events
<1> USE <1>a DEF Shown, OneOutcome, Proceed, Show, Fail, Committed
<1>1. ASSUME NEW r \in Requests, NEW t \in Turn, Begin(r, t) \/ NotFound(r, t)
      PROVE  Shown' /\ OneOutcome'
  BY <1>1 DEF Begin, NotFound
<1>2. ASSUME NEW r \in Requests, Load(r) \/ Run(r) \/ Hit(r) \/ Miss(r) \/ Store(r)
      PROVE  Shown' /\ OneOutcome'
  BY <1>2 DEF Load, Run, Hit, Miss, Store
<1>3. ASSUME NEW r \in Requests, Commit(r) \/ CommitQuestion(r) \/ Persist(r)
      PROVE  Shown' /\ OneOutcome'
  BY <1>3 DEF Commit, CommitQuestion, Persist
<1>4. ASSUME NEW r \in Requests, Respond(r) \/ Emit(r) \/ Finish(r)
      PROVE  Shown' /\ OneOutcome'
  BY <1>4 DEF Respond, Emit, Finish
<1>5. ASSUME NEW r \in Requests, CallFails(r) \/ Abandon(r) PROVE Shown' /\ OneOutcome'
  BY <1>5 DEF CallFails, Abandon
<1>6. ASSUME NEW u \in Users, NEW q \in Questions, Expire(u, q) PROVE Shown' /\ OneOutcome'
  BY <1>6 DEF Expire
<1> QED
  BY <1>1, <1>2, <1>3, <1>4, <1>5, <1>6 DEF Next, Step, Open, Continue

-----------------------------------------------------------------------------
\* A saved message has a request that is past its question.
LEMMA SavedHasTurn ==
    ASSUME QueryInv
    PROVE  \A m \in Saved : /\ m \in Message /\ m[1] \in Requests /\ turn[m[1]] \in Turn
                            /\ turn[m[1]] # None /\ pc[m[1]] \notin {"new", "load", "ask"}
<1> SUFFICES ASSUME NEW m \in Saved
             PROVE  /\ m \in Message /\ m[1] \in Requests /\ turn[m[1]] \in Turn
                    /\ turn[m[1]] # None /\ pc[m[1]] \notin {"new", "load", "ask"}
  OBVIOUS
<1>1. m \in Message /\ m[1] \in Requests /\ (m = <<m[1], "user">> \/ m = <<m[1], "assistant">>)
  BY DEF Saved, Message
<1>2. <<m[1], "user">> \in Saved
  BY <1>1 DEF QueryInv, Rows, TurnsAreWhole
<1>3. turn[m[1]] # None /\ pc[m[1]] \notin {"new", "load", "ask"}
  BY <1>1, <1>2 DEF QueryInv, Rows, Written
<1> QED BY <1>1, <1>3 DEF QueryInv, TypeOK

\* A request that begins has no rows and is not yet in a conversation.
LEMMA BeginRows ==
    ASSUME QueryInv, NEW r \in Requests, NEW t \in Turn, Open(r, t) \/ Continue(r, t)
    PROVE  Rows' /\ OwnHistoryOnly' /\ Reused' /\ CachedAnswersAreReusable'
<1>1. /\ Begin(r, t) /\ turn[r] = None /\ history[r] = << >> /\ answer[r] = None
      /\ r \in Requests /\ t # None /\ pc[r] = "new"
  BY DEF Open, Continue, Begin, QueryInv, AtItsStep
<1>2. /\ turn' = [turn EXCEPT ![r] = t] /\ pc' = [pc EXCEPT ![r] = "load"]
      /\ UNCHANGED <<conversations, stamp, cache, history, answer>>
  BY <1>1 DEF Begin, Proceed, rows
<1>3. \A x \in Requests : x # r => turn'[x] = turn[x] /\ pc'[x] = pc[x]
  BY <1>2 DEF QueryInv, TypeOK
<1>4. turn'[r] = t /\ pc'[r] = "load"
  BY <1>2 DEF QueryInv, TypeOK
<1>5. Saved' = Saved /\ \A m \in Saved : m[1] # r
  BY <1>1, <1>2, SavedHasTurn DEF Saved
<1>6. \A c : Thread(c)' = Thread(c)
  BY <1>3, <1>5, SavedHasTurn DEF Thread
<1>7. Written'
  BY <1>1, <1>2, <1>3, <1>4, <1>5 DEF QueryInv, Rows, Written, Streams, Message, Saved
<1>8. TurnsAreWhole'
  BY <1>2, <1>3, <1>4, <1>5, <1>6, SavedHasTurn
  DEF QueryInv, Rows, TurnsAreWhole, Streams
<1>9. Threads'
  <2>1. CASE Open(r, t)
    BY <1>1, <1>2, <1>3, <1>4, <2>1 DEF QueryInv, TypeOK, Turn, Rows, Threads, Open
  <2>2. CASE Continue(r, t)
    <3> DEFINE c == t.conversation
    <3>1. c \in Requests /\ c \in conversations /\ turn[c].user = t.user
      BY <2>2 DEF Continue, Turn
    <3>2. turn[c] # None /\ turn[c].conversation = c
      BY <2>2 DEF Continue, Known, QueryInv, Rows, Threads
    <3>3. c # r
      BY <1>1, <3>2
    <3> QED BY <1>1, <1>2, <1>3, <1>4, <3>1, <3>2, <3>3
            DEF QueryInv, TypeOK, Turn, Rows, Threads
  <2> QED BY <2>1, <2>2
<1>10. OwnHistoryOnly'
  <2> SUFFICES ASSUME NEW x \in Requests, NEW m \in Range(history[x])
               PROVE  m \in Thread(turn'[x].conversation) /\ turn'[m[1]].user = turn'[x].user
    BY <1>2, <1>6 DEF OwnHistoryOnly
  <2>1. x # r
    BY <1>1 DEF Range
  <2>2. m \in Thread(turn[x].conversation) /\ turn[m[1]].user = turn[x].user
    BY DEF QueryInv, OwnHistoryOnly
  <2>3. m[1] # r /\ m[1] \in Requests
    BY <1>5, <2>2, SavedHasTurn DEF Thread
  <2> QED BY <1>3, <2>1, <2>2, <2>3
<1>11. \A x \in Requests : Source(x) => Source(x)' /\ turn'[x] = turn[x]
  BY <1>1, <1>2, <1>3 DEF Source
<1>12. Reused' /\ CachedAnswersAreReusable'
  BY <1>1, <1>2, <1>3, <1>4, <1>11
  DEF QueryInv, TypeOK, Reused, CachedAnswersAreReusable, Opens
<1> QED BY <1>7, <1>8, <1>9, <1>10, <1>12 DEF Rows

\* What is loaded is of the conversation, whose messages are all of its user; a
\* conversation just opened has none.
LEMMA LoadRows ==
    ASSUME QueryInv, NEW r \in Requests, Load(r)
    PROVE  Rows' /\ OwnHistoryOnly' /\ Reused' /\ CachedAnswersAreReusable'
<1> DEFINE c == turn[r].conversation
<1>1. /\ pc[r] = "load" /\ turn[r] # None /\ turn[r] \in Turn /\ answer[r] = None
      /\ c \in Requests
  BY DEF Load, QueryInv, TypeOK, AtItsStep, Turn
<1>2. /\ UNCHANGED <<conversations, stamp, cache, turn, answer>>
      /\ pc' = [pc EXCEPT ![r] = IF Streams(r) THEN "ask" ELSE "run"]
  BY DEF Load, Proceed, rows
<1>3. PICK s \in Latest(c) : \E h \in Trim(s) : history' = [history EXCEPT ![r] = h]
  BY DEF Load
<1>4. PICK h \in Trim(s) : history' = [history EXCEPT ![r] = h]
  BY <1>3
<1>5. h \in Seq(Thread(c)) /\ Range(h) \subseteq Thread(c)
  BY LoadedHistory
<1>6. Saved' = Saved /\ \A d : Thread(d)' = Thread(d)
  BY <1>2 DEF Saved, Thread
<1>7. Written' /\ TurnsAreWhole'
  BY <1>1, <1>2, <1>6 DEF QueryInv, TypeOK, Rows, Written, TurnsAreWhole, Streams
<1>8. Threads'
  BY <1>1, <1>2 DEF QueryInv, TypeOK, Rows, Threads
<1>9. OwnHistoryOnly'
  <2> SUFFICES ASSUME NEW x \in Requests, NEW m \in Range(history'[x])
               PROVE  m \in Thread(turn[x].conversation) /\ turn[m[1]].user = turn[x].user
    BY <1>2, <1>6 DEF OwnHistoryOnly
  <2>1. CASE x = r
    <3>1. m \in Thread(c)
      BY <1>4, <1>5, <2>1 DEF QueryInv, TypeOK
    <3>2. m[1] \in Requests /\ turn[m[1]] # None /\ turn[m[1]].conversation = c
      BY <3>1, SavedHasTurn DEF Thread
    <3> QED BY <1>1, <2>1, <3>1, <3>2 DEF QueryInv, Rows, Threads
  <2>2. CASE x # r
    BY <1>4, <2>2 DEF QueryInv, TypeOK, OwnHistoryOnly
  <2> QED BY <2>1, <2>2
<1>10. Opens(r) => h = << >>
  <2> SUFFICES ASSUME c = r PROVE h = << >>
    BY DEF Opens
  <2>1. \A m \in Thread(c) : FALSE
    BY <1>1, SavedHasTurn DEF Thread, QueryInv, Rows, TurnsAreWhole, Threads, Saved, Message
  <2> QED BY <1>5, <2>1
<1>11. \A x \in Requests : history'[x] = history[x] \/ (x = r /\ answer[x] = None)
  BY <1>1, <1>4 DEF QueryInv, TypeOK
<1>12. \A x \in Requests : Source(x) => Source(x)'
  BY <1>1, <1>2, <1>11 DEF Source
<1>13. Reused'
  <2>1. \A x \in Requests : turn[x] # None /\ Opens(x) => history'[x] = << >>
    BY <1>4, <1>10 DEF QueryInv, TypeOK, Reused
  <2> QED BY <1>2, <1>12, <2>1 DEF QueryInv, TypeOK, Reused, Opens
<1>14. CachedAnswersAreReusable'
  BY <1>1, <1>2, <1>11, <1>12 DEF QueryInv, TypeOK, Reused, CachedAnswersAreReusable, Source
<1> QED BY <1>7, <1>8, <1>9, <1>13, <1>14 DEF Rows

\* A run of the graph is its own source; a cached one was a source already.
LEMMA AnswerRows ==
    ASSUME QueryInv, NEW r \in Requests, Run(r) \/ Hit(r)
    PROVE  Rows' /\ OwnHistoryOnly' /\ Reused' /\ CachedAnswersAreReusable'
<1>1. /\ pc[r] \in {"run", "lookup"} /\ turn[r] # None /\ turn[r] \in Turn /\ answer[r] = None
      /\ UNCHANGED <<conversations, stamp, cache, turn, history>>
      /\ \E step \in {"persist", "commit"} : pc' = [pc EXCEPT ![r] = step]
      /\ pc'[r] = "persist" => Streams(r)
  BY DEF Run, Hit, Proceed, rows, QueryInv, TypeOK, AtItsStep
<1>2. Saved' = Saved /\ \A d : Thread(d)' = Thread(d)
  BY <1>1 DEF Saved, Thread
<1>3. Written' /\ TurnsAreWhole'
  BY <1>1, <1>2 DEF QueryInv, TypeOK, Rows, Written, TurnsAreWhole, Streams
<1>4. Threads' /\ OwnHistoryOnly'
  BY <1>1, <1>2 DEF QueryInv, TypeOK, Rows, Threads, OwnHistoryOnly
<1>5. \A x \in Requests : Source(x) => Source(x)'
  BY <1>1 DEF Source, Run, Hit, QueryInv, TypeOK
<1>6. CASE Run(r)
  <2>1. answer' = [answer EXCEPT ![r] = r]
    BY <1>6 DEF Run
  <2>2. Reused'
    BY <1>1, <1>5, <2>1 DEF QueryInv, TypeOK, Reused, Opens
  <2>3. CachedAnswersAreReusable'
    BY <1>1, <2>1 DEF QueryInv, TypeOK, CachedAnswersAreReusable
  <2> QED BY <1>3, <1>4, <2>2, <2>3 DEF Rows
<1>7. CASE Hit(r)
  <2> DEFINE x == cache[turn[r].user][turn[r].question]
  <2>1. /\ x \in Requests /\ Source(x) /\ turn[x].user = turn[r].user
        /\ turn[x].question = turn[r].question /\ history[r] = << >>
    BY <1>1, <1>7 DEF Hit, Turn, QueryInv, TypeOK, AtItsStep, Reused
  <2>2. answer' = [answer EXCEPT ![r] = x]
    BY <1>7 DEF Hit
  <2> HIDE DEF x
  <2>3. Reused'
    BY <1>1, <1>5, <2>1, <2>2 DEF QueryInv, TypeOK, Reused, Opens
  <2>4. CachedAnswersAreReusable'
    BY <1>1, <2>1, <2>2 DEF QueryInv, TypeOK, CachedAnswersAreReusable, Source
  <2> QED BY <1>3, <1>4, <2>3, <2>4 DEF Rows
<1> QED BY <1>6, <1>7

\* The messages of a request appear in its conversation, and a commit of the first
\* ones makes the conversation exist.
LEMMA CommitRows ==
    ASSUME QueryInv, NEW r \in Requests, Commit(r) \/ CommitQuestion(r) \/ Persist(r)
    PROVE  Rows' /\ OwnHistoryOnly' /\ Reused' /\ CachedAnswersAreReusable'
<1> DEFINE c == turn[r].conversation
<1>1. /\ turn[r] # None /\ turn[r] \in Turn /\ c \in Requests /\ began[r] \in Nat \ {0}
      /\ pc[r] \in {"commit", "ask", "persist"} /\ clock \in Nat
      /\ UNCHANGED <<cache, turn, history, answer>>
      /\ <<r, "user">> \in Message /\ <<r, "assistant">> \in Message
  <2>1. pc[r] \in {"commit", "ask", "persist"} /\ UNCHANGED <<cache, turn, history, answer>>
    BY DEF Commit, CommitQuestion, Persist, handler
  <2>2. turn[r] # None /\ began[r] > 0
    BY <2>1 DEF QueryInv, AtItsStep
  <2>3. began[r] \in 0 .. clock /\ turn[r] \in Turn /\ clock \in Nat
    BY <2>2 DEF QueryInv, TypeOK
  <2>4. <<r, "user">> \in Message /\ <<r, "assistant">> \in Message
    BY DEF Message
  <2> QED BY <2>1, <2>2, <2>3, <2>4 DEF Turn
<1>2. \E step \in {"respond", "lookup", "run", "emit", "over"} :
          /\ pc' = [pc EXCEPT ![r] = step]
          /\ step \in {"lookup", "run"} => CommitQuestion(r)
          /\ step = "emit" => Persist(r)
  BY DEF Commit, CommitQuestion, Persist, Committed, Proceed, Fail
<1>3. /\ Commit(r) => /\ Saved' = Saved \cup {<<r, "user">>, <<r, "assistant">>}
                      /\ stamp'[<<r, "user">>] = began[r] /\ stamp'[<<r, "assistant">>] = began[r]
      /\ CommitQuestion(r) => Saved' = Saved \cup {<<r, "user">>}
      /\ Persist(r) => /\ Saved' = Saved \cup {<<r, "assistant">>} /\ <<r, "user">> \in Saved
                       /\ stamp'[<<r, "assistant">>] = clock + 1
                       /\ stamp'[<<r, "user">>] = stamp[<<r, "user">>]
      /\ \A m \in Message : m[1] # r => stamp'[m] = stamp[m]
  <2>1. stamp \in [Message -> 0 .. clock]
    BY DEF QueryInv, TypeOK
  <2>2. CASE Commit(r)
    <3>1. stamp' = [stamp EXCEPT ![<<r, "user">>] = began[r], ![<<r, "assistant">>] = began[r]]
      BY <2>2 DEF Commit
    <3>2. ~CommitQuestion(r) /\ ~Persist(r)
      BY <2>2 DEF Commit, CommitQuestion, Persist
    <3> QED BY <1>1, <2>1, <2>2, <3>1, <3>2 DEF Saved
  <2>3. CASE CommitQuestion(r)
    <3>1. stamp' = [stamp EXCEPT ![<<r, "user">>] = began[r]]
      BY <2>3 DEF CommitQuestion
    <3>2. ~Commit(r) /\ ~Persist(r)
      BY <2>3 DEF Commit, CommitQuestion, Persist
    <3> QED BY <1>1, <2>1, <2>3, <3>1, <3>2 DEF Saved
  <2>4. CASE Persist(r)
    <3>1. stamp' = [stamp EXCEPT ![<<r, "assistant">>] = clock + 1]
      BY <2>4 DEF Persist
    <3>2. ~Commit(r) /\ ~CommitQuestion(r)
      BY <2>4 DEF Commit, CommitQuestion, Persist
    <3>3. <<r, "user">> \in Saved
      BY <2>4 DEF Persist, QueryInv, Rows, Written
    <3> QED BY <1>1, <2>1, <2>4, <3>1, <3>2, <3>3 DEF Saved
  <2> QED BY <2>2, <2>3, <2>4
<1>4. Saved \subseteq Saved' /\ (\A d : Thread(d) \subseteq Thread(d)')
  BY <1>1, <1>3 DEF Thread
<1>5. /\ conversations' = conversations \cup {c} \/ (Persist(r) /\ conversations' = conversations)
      /\ Persist(r) => c \in conversations
  BY <1>1 DEF Commit, CommitQuestion, Persist, QueryInv, Rows, Written, TurnsAreWhole
<1>6. <<r, "user">> \in Saved' /\ <<r, "user">> \in Thread(c)'
  BY <1>1, <1>3 DEF Thread
<1>a. \A x \in Requests : x # r =>
        /\ pc'[x] = pc[x]
        /\ <<x, "user">> \in Saved' <=> <<x, "user">> \in Saved
        /\ <<x, "assistant">> \in Saved' <=> <<x, "assistant">> \in Saved
        /\ stamp'[<<x, "user">>] = stamp[<<x, "user">>]
        /\ stamp'[<<x, "assistant">>] = stamp[<<x, "assistant">>]
  <2> SUFFICES ASSUME NEW x \in Requests, x # r
               PROVE  /\ pc'[x] = pc[x]
                      /\ <<x, "user">> \in Saved' <=> <<x, "user">> \in Saved
                      /\ <<x, "assistant">> \in Saved' <=> <<x, "assistant">> \in Saved
                      /\ stamp'[<<x, "user">>] = stamp[<<x, "user">>]
                      /\ stamp'[<<x, "assistant">>] = stamp[<<x, "assistant">>]
    OBVIOUS
  <2>1. pc'[x] = pc[x]
    BY <1>2 DEF QueryInv, TypeOK
  <2>2. <<x, "user">> \in Message /\ <<x, "assistant">> \in Message
    BY DEF Message
  <2>3. /\ stamp'[<<x, "user">>] = stamp[<<x, "user">>]
        /\ stamp'[<<x, "assistant">>] = stamp[<<x, "assistant">>]
    BY <1>3, <2>2
  <2> QED BY <2>1, <2>2, <2>3 DEF Saved
<1>b. pc'[r] \in {"respond", "lookup", "run", "emit", "over"}
  BY <1>2 DEF QueryInv, TypeOK
<1>7. Written'
  <2> SUFFICES ASSUME NEW x \in Requests
               PROVE  /\ <<x, "user">> \in Saved' =>
                             turn[x] # None /\ pc'[x] \notin {"new", "load", "ask"}
                      /\ pc'[x] \in {"lookup", "persist", "emit", "store", "finish"} =>
                             <<x, "user">> \in Saved'
                      /\ pc'[x] = "run" /\ Streams(x) => <<x, "user">> \in Saved'
    BY <1>1 DEF Written, Streams
  <2>1. CASE x = r
    BY <1>1, <1>b, <1>6, <2>1
  <2>2. CASE x # r
    BY <1>a, <2>2 DEF QueryInv, Rows, Written
  <2> QED BY <2>1, <2>2
<1>8. TurnsAreWhole'
  <2>1. \A x \in Requests :
           /\ <<x, "assistant">> \in Saved' =>
                 <<x, "user">> \in Saved' /\ stamp'[<<x, "user">>] <= stamp'[<<x, "assistant">>]
           /\ <<x, "user">> \in Saved' =>
                 /\ turn[x].conversation \in conversations'
                 /\ ~Streams(x) => <<x, "assistant">> \in Saved'
    <3> SUFFICES ASSUME NEW x \in Requests
                 PROVE
           /\ <<x, "assistant">> \in Saved' =>
                 <<x, "user">> \in Saved' /\ stamp'[<<x, "user">>] <= stamp'[<<x, "assistant">>]
           /\ <<x, "user">> \in Saved' =>
                 /\ turn[x].conversation \in conversations'
                 /\ ~Streams(x) => <<x, "assistant">> \in Saved'
      OBVIOUS
    <3>1. CASE x # r
      BY <1>5, <1>a, <3>1 DEF QueryInv, Rows, TurnsAreWhole
    <3>2. CASE x = r
      <4>1. CASE Commit(r)
        BY <1>1, <1>3, <1>5, <3>2, <4>1
      <4>2. CASE CommitQuestion(r)
        <5>1. pc[r] = "ask" /\ Streams(r) /\ <<r, "user">> \notin Saved
          BY <4>2 DEF CommitQuestion, QueryInv, AtItsStep, Rows, Written
        <5>2. <<r, "assistant">> \notin Saved
          BY <5>1 DEF QueryInv, Rows, TurnsAreWhole
        <5> QED BY <1>1, <1>3, <1>5, <3>2, <4>2, <5>1, <5>2
      <4>3. CASE Persist(r)
        <5>1. pc[r] = "persist" /\ Streams(r) /\ stamp[<<r, "user">>] \in 0 .. clock
          BY <1>1, <4>3 DEF Persist, QueryInv, TypeOK, AtItsStep
        <5> QED BY <1>1, <1>3, <1>5, <3>2, <4>3, <5>1
      <4> QED BY <4>1, <4>2, <4>3
    <3> QED BY <3>1, <3>2
  <2>2. \A d \in conversations' : Thread(d)' # {}
    <3> SUFFICES ASSUME NEW d \in conversations' PROVE Thread(d)' # {}
      OBVIOUS
    <3>1. CASE d = c
      BY <1>1, <1>6, <3>1 DEF Thread
    <3>2. CASE d \in conversations
      <4>1. Thread(d) # {} /\ Thread(d) \subseteq Thread(d)'
        BY <1>4, <3>2 DEF QueryInv, Rows, TurnsAreWhole
      <4> QED BY <4>1
    <3> QED BY <1>5, <3>1, <3>2
  <2> QED BY <1>1, <2>1, <2>2 DEF TurnsAreWhole, Streams
<1>9. Threads'
  BY <1>1, <1>2, <1>5 DEF QueryInv, TypeOK, Rows, Threads
<1>10. OwnHistoryOnly' /\ Reused' /\ CachedAnswersAreReusable'
  BY <1>1, <1>4 DEF QueryInv, OwnHistoryOnly, Reused, CachedAnswersAreReusable, Source, Opens
<1> QED BY <1>7, <1>8, <1>9, <1>10 DEF Rows

\* Store caches a source; Expire forgets one.
LEMMA CacheRows ==
    ASSUME QueryInv,
           \/ \E r \in Requests : Store(r)
           \/ \E u \in Users, q \in Questions : Expire(u, q)
    PROVE  Rows' /\ OwnHistoryOnly' /\ Reused' /\ CachedAnswersAreReusable'
<1>1. /\ UNCHANGED <<conversations, stamp, turn, history, answer>>
      /\ pc' = pc \/ \E r \in Requests : Store(r) /\ pc' = [pc EXCEPT ![r] = "finish"]
  BY DEF Store, Expire, rows, handler
<1>2. Saved' = Saved /\ \A d : Thread(d)' = Thread(d)
  BY <1>1 DEF Saved, Thread
<1>3. Written' /\ TurnsAreWhole'
  BY <1>1, <1>2 DEF QueryInv, TypeOK, Rows, Written, TurnsAreWhole, Streams, Store
<1>4. Threads' /\ OwnHistoryOnly' /\ CachedAnswersAreReusable'
  BY <1>1, <1>2
  DEF QueryInv, TypeOK, Rows, Threads, OwnHistoryOnly, CachedAnswersAreReusable
<1>5. \A u \in Users, q \in Questions : cache'[u][q] # None =>
          LET x == cache'[u][q] IN Source(x) /\ turn[x].user = u /\ turn[x].question = q
  <2>1. ASSUME NEW r \in Requests, Store(r)
        PROVE  \A u \in Users, q \in Questions : cache'[u][q] # None =>
                   LET x == cache'[u][q] IN Source(x) /\ turn[x].user = u /\ turn[x].question = q
    <3>1. /\ answer[r] = r /\ Source(r) /\ turn[r].user \in Users /\ turn[r].question \in Questions
      BY <2>1 DEF Store, QueryInv, TypeOK, AtItsStep, Turn, Reused, Source
    <3>2. cache' = cache \/ cache' = [cache EXCEPT ![turn[r].user][turn[r].question] = r]
      BY <2>1, <3>1 DEF Store
    <3>3. ASSUME NEW u \in Users, NEW q \in Questions
          PROVE  cache'[u][q] = cache[u][q]
                 \/ (cache'[u][q] = r /\ u = turn[r].user /\ q = turn[r].question)
      BY <3>1, <3>2 DEF QueryInv, TypeOK
    <3> QED BY <3>1, <3>3 DEF QueryInv, Reused
  <2>2. ASSUME NEW u \in Users, NEW q \in Questions, Expire(u, q)
        PROVE  \A v \in Users, p \in Questions : cache'[v][p] # None => cache'[v][p] = cache[v][p]
    BY <2>2 DEF Expire, QueryInv, TypeOK
  <2> QED BY <2>1, <2>2 DEF QueryInv, Reused
<1>6. Reused'
  BY <1>1, <1>5 DEF QueryInv, Reused, Source, Opens
<1> QED BY <1>3, <1>4, <1>6 DEF Rows

\* The other steps only move a handler on.
LEMMA MoveRows ==
    ASSUME QueryInv,
           \/ \E r \in Requests, t \in Turn : NotFound(r, t)
           \/ \E r \in Requests : \/ Miss(r) \/ Respond(r) \/ Emit(r) \/ Finish(r)
                                 \/ CallFails(r) \/ Abandon(r)
    PROVE  Rows' /\ OwnHistoryOnly' /\ Reused' /\ CachedAnswersAreReusable'
<1>1. /\ UNCHANGED <<conversations, stamp, cache, turn, history, answer>>
      /\ \E r \in Requests, step \in {"run", "over", "store", "finish"} :
            /\ pc' = [pc EXCEPT ![r] = step]
            /\ step = "run" => Miss(r)
            /\ step \in {"store", "finish"} => Emit(r)
  BY DEF NotFound, Miss, Respond, Emit, Finish, CallFails, Abandon, Fail, Show, rows, handler
<1>2. Saved' = Saved /\ \A d : Thread(d)' = Thread(d)
  BY <1>1 DEF Saved, Thread
<1>3. Written' /\ TurnsAreWhole'
  BY <1>1, <1>2 DEF QueryInv, TypeOK, Rows, Written, TurnsAreWhole, Streams, Miss, Emit
<1>4. Threads' /\ OwnHistoryOnly' /\ Reused' /\ CachedAnswersAreReusable'
  BY <1>1, <1>2
  DEF QueryInv, TypeOK, Rows, Threads, OwnHistoryOnly, Reused, CachedAnswersAreReusable,
      Source, Opens
<1> QED BY <1>3, <1>4 DEF Rows

-----------------------------------------------------------------------------
LEMMA InitQuery == Init => QueryInv
<1> SUFFICES ASSUME Init PROVE QueryInv
  OBVIOUS
<1>1. TypeOK
  BY DEF Init, TypeOK
<1>2. Saved = {}
  BY DEF Init, Saved
<1>3. \A r \in Requests : Range(history[r]) = {}
  BY DEF Init, Range
<1> QED
  BY <1>1, <1>2, <1>3
  DEF Init, QueryInv, AtItsStep, Shown, Rows, Written, Threads, TurnsAreWhole, OwnHistoryOnly,
      Reused, CachedAnswersAreReusable, OneOutcome

LEMMA NextQuery == QueryInv /\ [Next]_vars => QueryInv'
<1> SUFFICES ASSUME QueryInv, [Next]_vars PROVE QueryInv'
  OBVIOUS
<1>1. CASE UNCHANGED vars
  BY <1>1
  DEF vars, rows, handler, QueryInv, TypeOK, AtItsStep, Shown, Rows, Written, Threads,
      TurnsAreWhole, OwnHistoryOnly, Reused, CachedAnswersAreReusable, OneOutcome, Source,
      Streams, Opens, Saved, Thread
<1>2. CASE Next
  <2>1. TypeOK' /\ AtItsStep' /\ Shown' /\ OneOutcome'
    BY <1>2, Types, AtItsStepKept, ShownKept DEF QueryInv
  <2>2. Rows' /\ OwnHistoryOnly' /\ Reused' /\ CachedAnswersAreReusable'
    BY <1>2, BeginRows, LoadRows, AnswerRows, CommitRows, CacheRows, MoveRows DEF Next, Step
  <2> QED BY <2>1, <2>2 DEF QueryInv
<1> QED BY <1>1, <1>2

\* The invariant of the two endpoints.
THEOREM QueryInvariance == Spec => []QueryInv
<1> QED BY InitQuery, NextQuery, PTL DEF Spec

\* Every variable keeps its type, and created_at never runs ahead of the clock.
THEOREM TypeCorrect == Spec => []TypeOK
<1>1. QueryInv => TypeOK
  BY DEF QueryInv
<1> QED BY <1>1, QueryInvariance, PTL

\* Whatever fails, the rows of a turn are whole: an answer has its question, a message
\* its conversation, and a conversation a message.
THEOREM WholeTurns == Spec => []TurnsAreWhole
<1>1. QueryInv => TurnsAreWhole
  BY DEF QueryInv, Rows
<1> QED BY <1>1, QueryInvariance, PTL

\* The prompt holds messages of the same user and conversation only.
THEOREM HistoriesArePrivate == Spec => []OwnHistoryOnly
<1>1. QueryInv => OwnHistoryOnly
  BY DEF QueryInv
<1> QED BY <1>1, QueryInvariance, PTL

\* An answer of another request is reused only for the same question of the same user,
\* both without history.
THEOREM ReuseIsSound == Spec => []CachedAnswersAreReusable
<1>1. QueryInv => CachedAnswersAreReusable
  BY DEF QueryInv
<1> QED BY <1>1, QueryInvariance, PTL

\* No error follows an answer, and "done" never comes without one.
THEOREM OutcomesAreSingle == Spec => []OneOutcome
<1>1. QueryInv => OneOutcome
  BY DEF QueryInv
<1> QED BY <1>1, QueryInvariance, PTL
-----------------------------------------------------------------------------
(* What is bounded, and what is read back.  A saved answer has its run, and    *)
(* nothing writes it twice (Settled): the sizes and times of saved messages    *)
(* never change, so what was true of a history when it was loaded stays true.  *)

Unwritten == {"new", "load", "ask", "lookup", "run", "commit", "persist"}

SettledAt(r) ==
    /\ pc[r] \in {"commit", "respond", "persist", "emit", "store", "finish"} => answer[r] # None
    /\ <<r, "assistant">> \in Saved => answer[r] # None /\ pc[r] \notin Unwritten
    /\ pc[r] \in {"respond", "emit", "store", "finish"} \/ "answer" \in seen[r] =>
           <<r, "assistant">> \in Saved

Settled == \A r \in Requests : SettledAt(r)

\* Every answer its client had seen is in the conversation.
Recalls ==
    \A r \in Requests : \A x \in context[r] :
        /\ x \in Requests /\ turn[x] # None /\ <<x, "assistant">> \in Saved
        /\ turn[r] # None /\ turn[x].conversation = turn[r].conversation

\* ReadsItsOwnWrites, at every step after the load.
Recalled(r, x) ==
    \/ <<x, "assistant">> \in Range(history[r])
    \/ Len(history[r]) = HistoryMax
    \/ \E m \in Thread(turn[r].conversation) \ Range(history[r]) :
        /\ stamp[m] >= stamp[<<x, "assistant">>] /\ <<x, "assistant">> \in Saved
        /\ Total(history[r]) + Size(m) > Budget

ReadBack ==
    \A r \in Requests : pc[r] \notin {"new", "load", "over"} => \A x \in context[r] : Recalled(r, x)

MemoryInv == QueryInv /\ Settled /\ HistoryIsBounded /\ Recalls /\ ReadBack

LEMMA SettledKept == QueryInv /\ Settled /\ Next => Settled'
<1> SUFFICES ASSUME QueryInv, Settled, Next, NEW x \in Requests PROVE SettledAt(x)'
  BY DEF Settled
<1>a. /\ pc \in [Requests -> Steps] /\ seen \in [Requests -> SUBSET Events]
      /\ answer \in [Requests -> Requests \cup {None}]
      /\ stamp \in [Message -> 0 .. clock] /\ clock \in Nat
      /\ None \notin Requests
  BY DEF QueryInv, TypeOK, Steps, Events
<1>b. <<x, "assistant">> \in Message /\ <<x, "user">> \in Message
  BY DEF Message
<1>c. SettledAt(x)
  BY DEF Settled
<1> USE <1>a, <1>b, <1>c DEF SettledAt, Unwritten, Proceed, Show, Fail, Committed, rows, handler, Saved
<1>1. ASSUME NEW r \in Requests, NEW t \in Turn, Begin(r, t) PROVE SettledAt(x)'
  BY <1>1 DEF Begin
<1>11. ASSUME NEW r \in Requests, NEW t \in Turn, NotFound(r, t) PROVE SettledAt(x)'
  BY <1>11 DEF NotFound
<1>2. ASSUME NEW r \in Requests, Load(r) \/ Miss(r) \/ Store(r) PROVE SettledAt(x)'
  BY <1>2 DEF Load, Miss, Store
<1>3. ASSUME NEW r \in Requests, Run(r) PROVE SettledAt(x)'
  BY <1>3 DEF Run
<1>4. ASSUME NEW r \in Requests, Hit(r) PROVE SettledAt(x)'
  BY <1>4 DEF Hit
<1>5. ASSUME NEW r \in Requests, Commit(r) PROVE SettledAt(x)'
  <2>1. began[r] > 0 /\ SettledAt(r)
    BY <1>5 DEF Commit, QueryInv, AtItsStep, Settled
  <2>2. stamp'[<<x, "assistant">>] = IF x = r THEN began[r] ELSE stamp[<<x, "assistant">>]
    BY <1>5 DEF Commit
  <2> QED BY <1>5, <2>1, <2>2 DEF Commit
<1>6. ASSUME NEW r \in Requests, CommitQuestion(r) PROVE SettledAt(x)'
  <2>1. stamp'[<<x, "assistant">>] = stamp[<<x, "assistant">>]
    BY <1>6 DEF CommitQuestion
  <2> QED BY <1>6, <2>1 DEF CommitQuestion
<1>7. ASSUME NEW r \in Requests, Persist(r) PROVE SettledAt(x)'
  <2>1. stamp'[<<x, "assistant">>] = IF x = r THEN clock + 1 ELSE stamp[<<x, "assistant">>]
    BY <1>7 DEF Persist
  <2> QED BY <1>7, <2>1 DEF Persist
<1>8. ASSUME NEW r \in Requests, Respond(r) \/ Emit(r) \/ Finish(r) PROVE SettledAt(x)'
  BY <1>8 DEF Respond, Emit, Finish
<1>9. ASSUME NEW r \in Requests, CallFails(r) \/ Abandon(r) PROVE SettledAt(x)'
  BY <1>9 DEF CallFails, Abandon
<1>10. ASSUME NEW u \in Users, NEW q \in Questions, Expire(u, q) PROVE SettledAt(x)'
  BY <1>10 DEF Expire
<1> QED
  BY <1>1, <1>11, <1>2, <1>3, <1>4, <1>5, <1>6, <1>7, <1>8, <1>9, <1>10 DEF Next, Step, Open, Continue

\* Saved messages keep their time and their size, and requests what they began with.
Kept ==
    /\ \A m \in Saved : m \in Saved' /\ stamp'[m] = stamp[m] /\ Size(m)' = Size(m)
    /\ \A x \in Requests : turn[x] # None => turn'[x] = turn[x] /\ context'[x] = context[x]
    /\ \A x \in Requests : "answer" \in seen[x] => "answer" \in seen'[x]

LEMMA NothingIsRewritten == QueryInv /\ Settled /\ Next => Kept
<1> SUFFICES ASSUME QueryInv, Settled, Next PROVE Kept
  OBVIOUS
<1>a. /\ seen \in [Requests -> SUBSET Events] /\ turn \in [Requests -> Turn \cup {None}]
      /\ answer \in [Requests -> Requests \cup {None}] /\ context \in [Requests -> SUBSET Requests]
      /\ length \in [Requests -> AnswerLengths \cup {0}]
      /\ stamp \in [Message -> 0 .. clock] /\ None \notin Requests
  BY DEF QueryInv, TypeOK, Events
<1>1. \A m \in Saved : m \in Saved' /\ stamp'[m] = stamp[m]
  <2> SUFFICES ASSUME NEW m \in Saved PROVE m \in Saved' /\ stamp'[m] = stamp[m]
    OBVIOUS
  <2>1. m \in Message /\ stamp[m] > 0 /\ m = <<m[1], m[2]>> /\ m[2] \in {"user", "assistant"} /\ m[1] \in Requests
    BY DEF Saved, Message
  <2>2. \A r \in Requests : Commit(r) \/ CommitQuestion(r) => m # <<r, "user">> /\ m # <<r, "assistant">>
    BY SavedHasTurn
    DEF Commit, CommitQuestion, Settled, SettledAt, Unwritten, QueryInv, Rows, TurnsAreWhole, AtItsStep
  <2>3. \A r \in Requests : Persist(r) => m # <<r, "assistant">>
    BY DEF Persist, Settled, SettledAt, Unwritten
  <2>4. stamp'[m] = stamp[m]
    <3>1. ASSUME NEW r \in Requests, Commit(r) \/ CommitQuestion(r) PROVE stamp'[m] = stamp[m]
      BY <1>a, <2>1, <2>2, <3>1 DEF Commit, CommitQuestion
    <3>2. ASSUME NEW r \in Requests, Persist(r) PROVE stamp'[m] = stamp[m]
      BY <1>a, <2>1, <2>3, <3>2 DEF Persist
    <3>3. \/ \E r \in Requests : Commit(r) \/ CommitQuestion(r) \/ Persist(r)
          \/ stamp' = stamp
      BY DEF Next, Step, Open, Continue, Begin, NotFound, Load, Run, Respond, Hit, Miss, Emit,
             Store, Finish, CallFails, Abandon, Expire, rows
    <3> QED BY <3>1, <3>2, <3>3
  <2> QED BY <2>1, <2>4 DEF Saved
<1>2. \A m \in Saved : Size(m)' = Size(m)
  <2> SUFFICES ASSUME NEW m \in Saved, m[2] # "user" PROVE length'[answer'[m[1]]] = length[answer[m[1]]]
    BY DEF Size
  <2> DEFINE x == m[1]
  <2>1. x \in Requests /\ <<x, "assistant">> \in Saved /\ m = <<x, "assistant">>
    BY DEF Saved, Message
  <2>2. answer[x] \in Requests /\ answer[x] # None /\ pc[x] \notin Unwritten
    BY <1>a, <2>1 DEF Settled, SettledAt
  <2>3. answer[answer[x]] # None
    BY <2>1, <2>2 DEF QueryInv, Reused, Source
  <2>4. ASSUME NEW r \in Requests, Run(r) PROVE answer'[x] = answer[x] /\ length'[answer[x]] = length[answer[x]]
    <3>1. answer[r] = None
      BY <2>4 DEF Run, QueryInv, AtItsStep
    <3> QED BY <1>a, <2>1, <2>2, <2>3, <2>4, <3>1 DEF Run
  <2>5. ASSUME NEW r \in Requests, Hit(r) PROVE answer'[x] = answer[x] /\ length'[answer[x]] = length[answer[x]]
    <3>1. answer[r] = None
      BY <2>5 DEF Hit, QueryInv, AtItsStep
    <3> QED BY <1>a, <2>1, <2>2, <2>5, <3>1 DEF Hit
  <2>6. \/ \E r \in Requests : Run(r) \/ Hit(r)
        \/ answer' = answer /\ length' = length
    BY DEF Next, Step, Open, Continue, Begin, NotFound, Load, Commit, CommitQuestion, Persist, Respond,
           Miss, Emit, Store, Finish, CallFails, Abandon, Expire, handler
  <2> QED BY <2>4, <2>5, <2>6
<1>3. \A x \in Requests : turn[x] # None => turn'[x] = turn[x] /\ context'[x] = context[x]
  <2>1. \/ \E r \in Requests, t \in Turn : Begin(r, t)
        \/ turn' = turn /\ context' = context
    BY DEF Next, Step, Open, Continue, NotFound, Load, Run, Commit, CommitQuestion, Persist, Respond,
           Hit, Miss, Emit, Store, Finish, CallFails, Abandon, Expire, handler
  <2>2. ASSUME NEW r \in Requests, NEW t \in Turn, Begin(r, t), NEW x \in Requests, turn[x] # None
        PROVE  turn'[x] = turn[x] /\ context'[x] = context[x]
    <3>1. x # r
      BY <2>2 DEF Begin, QueryInv, AtItsStep
    <3> QED BY <1>a, <2>2, <3>1 DEF Begin
  <2> QED BY <2>1, <2>2
<1>4. \A x \in Requests : "answer" \in seen[x] => "answer" \in seen'[x]
  <2>1. \/ \E r \in Requests, e \in Events : seen' = [seen EXCEPT ![r] = @ \cup {e}]
        \/ seen' = seen
    BY DEF Next, Step, Open, Continue, Begin, NotFound, Load, Run, Commit, CommitQuestion, Persist,
           Respond, Hit, Miss, Emit, Store, Finish, CallFails, Abandon, Expire, Committed, Proceed,
           Show, Fail, Events, handler
  <2> QED BY <1>a, <2>1
<1> QED BY <1>1, <1>2, <1>3, <1>4 DEF Kept

\* The same messages have the same length.
LEMMA SameTotal ==
    ASSUME NEW r \in Requests, QueryInv, Kept, history'[r] = history[r]
    PROVE  Total(history[r])' = Total(history[r])
<1>1. Range(history[r]) \subseteq Saved /\ history[r] \in Seq(Message)
  BY DEF QueryInv, TypeOK, OwnHistoryOnly, Thread
<1>2. \A i \in 1 .. Len(history[r]) : Size(history[r][i])' = Size(history[r][i])
  BY <1>1 DEF Kept, Range
<1>3. [i \in 1 .. Len(history[r]) |-> Size(history[r][i])]' = [i \in 1 .. Len(history[r]) |-> Size(history[r][i])]
  BY <1>2
<1> QED BY <1>3 DEF Total

\* Only Load changes a history.
LEMMA Histories ==
    ASSUME Next, TypeOK, NEW r \in Requests
    PROVE  history'[r] = history[r] \/ Load(r)
<1>1. \/ \E x \in Requests : Load(x)
      \/ history' = history
  BY DEF Next, Step, Open, Continue, Begin, NotFound, Run, Commit, CommitQuestion, Persist,
         Respond, Hit, Miss, Emit, Store, Finish, CallFails, Abandon, Expire, handler
<1>2. ASSUME NEW x \in Requests, Load(x), x # r PROVE history'[r] = history[r]
  BY <1>2 DEF Load, TypeOK
<1> QED BY <1>1, <1>2

LEMMA ThreadIsFinite ==
    ASSUME NEW c
    PROVE  IsFiniteSet(Thread(c)) /\ Cardinality(Thread(c)) \in Nat
<1>1. IsFiniteSet({"user", "assistant"})
  <2>1. IsFiniteSet({"user"} \cup {"assistant"})
    BY FS_Singleton, FS_AddElement
  <2> QED BY <2>1
<1>2. IsFiniteSet(Message) /\ Thread(c) \subseteq Message
  BY <1>1, FS_Product DEF Message, Thread, Saved
<1> QED BY <1>2, FS_Subset, FS_CardinalityType

\* What Latest yields: at most HistoryMax messages of the thread, each once, by time;
\* none older than one left out, and none left out below the limit.
LEMMA LatestFacts ==
    ASSUME NEW c, NEW s \in Latest(c)
    PROVE  /\ s \in Seq(Thread(c)) /\ Len(s) \in 0 .. HistoryMax
           /\ \A i, j \in 1 .. Len(s) : i < j => s[i] # s[j] /\ stamp[s[i]] <= stamp[s[j]]
           /\ \A m \in Thread(c) \ Range(s) : /\ Len(s) = HistoryMax
                                              /\ \A i \in 1 .. Len(s) : stamp[m] <= stamp[s[i]]
<1> DEFINE n == Min({Cardinality(Thread(c)), HistoryMax})
<1>1. Cardinality(Thread(c)) \in Nat /\ IsFiniteSet(Thread(c))
  BY ThreadIsFinite
<1>2. n \in {Cardinality(Thread(c)), HistoryMax} /\ n <= HistoryMax /\ n \in Nat
  BY <1>1 DEF Min
<1>3. /\ s \in [1 .. n -> Thread(c)]
      /\ \A i, j \in 1 .. n : i < j => s[i] # s[j] /\ stamp[s[i]] <= stamp[s[j]]
      /\ \A m \in Thread(c) \ Range(s) : \A i \in 1 .. n : stamp[m] <= stamp[s[i]]
  BY DEF Latest
<1> HIDE DEF n
<1>4. s \in Seq(Thread(c)) /\ Len(s) = n
  BY <1>2, <1>3
<1>5. ASSUME NEW m \in Thread(c), m \notin Range(s) PROVE n = HistoryMax
  <2> SUFFICES ASSUME n = Cardinality(Thread(c)) PROVE FALSE
    BY <1>2
  <2>1. \A i, j \in 1 .. n : s[i] = s[j] => i = j
    <3> SUFFICES ASSUME NEW i \in 1 .. n, NEW j \in 1 .. n, i # j PROVE s[i] # s[j]
      OBVIOUS
    <3>1. i < j \/ j < i
      OBVIOUS
    <3> QED BY <1>3, <3>1
  <2>2. s \in Injection(1 .. n, Thread(c) \ {m})
    <3>1. s \in [1 .. n -> Thread(c) \ {m}]
      BY <1>3, <1>5 DEF Range
    <3> QED BY <2>1, <3>1 DEF Injection, IsInjective
  <2>3. IsFiniteSet(Thread(c) \ {m}) /\ Cardinality(Thread(c) \ {m}) = n - 1
    BY <1>1, <1>5, FS_RemoveElement
  <2>4. IsFiniteSet(1 .. n) /\ Cardinality(1 .. n) = n
    <3>1. 1 \in Int /\ n \in Int
      BY <1>2
    <3>2. IsFiniteSet(1 .. n) /\ Cardinality(1 .. n) = IF 1 > n THEN 0 ELSE n - 1 + 1
      BY <3>1, FS_Interval, Zenon
    <3> QED BY <1>2, <3>2
  <2>5. Cardinality(1 .. n) <= Cardinality(Thread(c) \ {m})
    BY <2>2, <2>3, <2>4, FS_Injection, Zenon
  <2> QED BY <1>2, <2>3, <2>4, <2>5
<1> QED BY <1>2, <1>3, <1>4, <1>5

LEMMA BoundKept == QueryInv /\ Settled /\ HistoryIsBounded /\ Next => HistoryIsBounded'
<1> SUFFICES ASSUME QueryInv, Settled, HistoryIsBounded, Next, NEW r \in Requests
             PROVE  Len(history'[r]) <= HistoryMax /\ Total(history[r])' <= Budget
  BY DEF HistoryIsBounded
<1>1. Kept
  BY NothingIsRewritten
<1>2. CASE history'[r] = history[r]
  <2>1. Total(history[r])' = Total(history[r])
    BY <1>1, <1>2, SameTotal
  <2> QED BY <1>2, <2>1 DEF HistoryIsBounded
<1>3. CASE Load(r)
  <2>1. PICK s \in Latest(turn[r].conversation) : \E h \in Trim(s) : history' = [history EXCEPT ![r] = h]
    BY <1>3 DEF Load
  <2>2. PICK h \in Trim(s) : history' = [history EXCEPT ![r] = h]
    BY <2>1
  <2>3. history'[r] = h
    BY <2>2 DEF QueryInv, TypeOK
  <2>4. PICK i \in 1 .. Len(s) + 1 : h = SubSeq(s, i, Len(s)) /\ Fits(SubSeq(s, i, Len(s)))
    BY DEF Trim
  <2>5. Len(h) <= HistoryMax
    <3>1. s \in Seq(Thread(turn[r].conversation)) /\ Len(s) \in Nat /\ Len(s) <= HistoryMax
      BY LatestFacts
    <3>2. Len(SubSeq(s, i, Len(s))) = IF i <= Len(s) THEN Len(s) - i + 1 ELSE 0
      BY <3>1
    <3> QED BY <2>4, <3>1, <3>2
  <2>6. answer' = answer /\ length' = length
    BY <1>3 DEF Load
  <2>7. Total(h)' = Total(h)
    BY <2>6 DEF Total, Size
  <2>8. Total(history[r])' = Total(h)'
    BY <2>3 DEF Total
  <2> QED BY <2>3, <2>4, <2>5, <2>7, <2>8 DEF Fits
<1> QED BY <1>2, <1>3, Histories DEF QueryInv

LEMMA RecallsKept == QueryInv /\ Settled /\ Recalls /\ Next => Recalls'
<1> SUFFICES ASSUME QueryInv, Settled, Recalls, Next, NEW r \in Requests, NEW x \in context'[r]
             PROVE  /\ x \in Requests /\ turn'[x] # None /\ <<x, "assistant">> \in Saved'
                    /\ turn'[r] # None /\ turn'[x].conversation = turn'[r].conversation
  BY DEF Recalls
<1>1. Kept /\ Settled'
  BY NothingIsRewritten, SettledKept
<1>2. CASE x \in context[r]
  BY <1>1, <1>2 DEF Recalls, Kept
<1>3. CASE x \notin context[r]
  <2>1. PICK z \in Requests, t \in Turn : Begin(z, t)
    BY <1>3 DEF Next, Step, Open, Continue, NotFound, Load, Run, Commit, CommitQuestion, Persist, Respond,
           Hit, Miss, Emit, Store, Finish, CallFails, Abandon, Expire, handler
  <2>2. z = r
    BY <1>3, <2>1 DEF Begin, QueryInv, TypeOK
  <2>3. /\ x \in Requests /\ turn[x] # None /\ turn[x].conversation = t.conversation
        /\ "answer" \in seen[x]
    BY <2>1, <2>2 DEF Begin, QueryInv, TypeOK
  <2>4. turn'[r] = t /\ t # None
    BY <2>1, <2>2 DEF Begin, QueryInv, TypeOK
  <2>5. turn'[x] = turn[x] /\ <<x, "assistant">> \in Saved
    BY <1>1, <2>3 DEF Kept, Settled, SettledAt
  <2>6. <<x, "assistant">> \in Saved'
    BY <1>1, <2>5 DEF Kept
  <2> QED BY <2>3, <2>4, <2>5, <2>6
<1> QED BY <1>2, <1>3

-----------------------------------------------------------------------------
(* The sum of a sequence of sizes.                                             *)

\* Induction over the naturals, in terms of sets.
LEMMA SetInduction ==
    ASSUME NEW S \in SUBSET Nat, 0 \in S, \A n \in S : n + 1 \in S
    PROVE  S = Nat
<1> SUFFICES ASSUME Nat \ S # {} PROVE FALSE
  OBVIOUS
<1> DEFINE Less == {ss \in Nat \X Nat : ss[1] < ss[2]}
<1>1. IsWellFoundedOn(Less, Nat)
  BY NatLessThanWellFounded DEF OpToRel
<1>2. PICK n \in Nat \ S : \A k \in Nat \ S : ~ (<<k, n>> \in Less)
  <2> HIDE DEF Less
  <2>1. Nat \ S \subseteq Nat
    OBVIOUS
  <2> QED BY <1>1, <2>1, WFMin
<1>3. n # 0 /\ n - 1 \in Nat
  OBVIOUS
<1>4. n - 1 \notin S
  BY <1>3
<1>5. <<n - 1, n>> \in Less
  BY <1>3
<1> QED BY <1>2, <1>3, <1>4, <1>5

\* The partial sums SumOf is made of.
AreSums(f, a, n) ==
    f = [i \in 0 .. n |-> IF i = 0 THEN 0 ELSE f[i - 1] + a[Len(a) + 1 - i]]

LEMMA SumsExist == \A a : \A n \in Nat : \E f : AreSums(f, a, n)
<1> SUFFICES ASSUME NEW a PROVE \A n \in Nat : \E f : AreSums(f, a, n)
  OBVIOUS
<1> DEFINE S == {n \in Nat : \E f : AreSums(f, a, n)}
           g(i) == a[Len(a) + 1 - i]
<1>a. \A f, n : AreSums(f, a, n) <=> f = [i \in 0 .. n |-> IF i = 0 THEN 0 ELSE f[i - 1] + g(i)]
  BY DEF AreSums
<1> HIDE DEF g
<1>1. 0 \in S
  <2> DEFINE p == [i \in 0 .. 0 |-> 0]
  <2>1. p = [i \in 0 .. 0 |-> IF i = 0 THEN 0 ELSE p[i - 1] + g(i)]
    OBVIOUS
  <2> QED BY <1>a, <2>1
<1>2. ASSUME NEW n \in S PROVE n + 1 \in S
  <2>1. PICK p : AreSums(p, a, n)
    OBVIOUS
  <2> DEFINE q == [i \in 0 .. n + 1 |-> IF i = n + 1 THEN p[n] + g(i) ELSE p[i]]
  <2>2. \A i \in 0 .. n : p[i] = IF i = 0 THEN 0 ELSE p[i - 1] + g(i)
    BY <1>a, <2>1
  <2>3. ASSUME NEW i \in 0 .. n + 1
        PROVE  q[i] = IF i = 0 THEN 0 ELSE q[i - 1] + g(i)
    <3>1. CASE i = n + 1
      <4>1. i # 0 /\ i - 1 = n /\ n \in 0 .. n + 1 /\ n # n + 1
        BY <3>1
      <4>2. q[i] = p[n] + g(i) /\ q[n] = p[n]
        BY <3>1, <4>1
      <4> QED BY <4>1, <4>2
    <3>2. CASE i = 0
      <4>1. i # n + 1 /\ i \in 0 .. n
        BY <3>2
      <4>2. q[i] = p[i]
        BY <4>1
      <4> QED BY <2>2, <3>2, <4>1, <4>2
    <3>3. CASE i \in 1 .. n
      <4>1. /\ i # n + 1 /\ i \in 0 .. n /\ i # 0
            /\ i - 1 # n + 1 /\ i - 1 \in 0 .. n + 1
        BY <3>3
      <4>2. q[i] = p[i] /\ q[i - 1] = p[i - 1]
        BY <4>1
      <4> QED BY <2>2, <4>1, <4>2
    <3> QED BY <3>1, <3>2, <3>3
  <2> HIDE DEF q
  <2>4. q = [i \in 0 .. n + 1 |-> q[i]]
    BY DEF q
  <2>5. q = [i \in 0 .. n + 1 |-> IF i = 0 THEN 0 ELSE q[i - 1] + g(i)]
    BY <2>3, <2>4
  <2>6. AreSums(q, a, n + 1)
    BY <1>a, <2>5
  <2> QED BY <2>6
<1>3. S = Nat
  <2>1. S \in SUBSET Nat
    OBVIOUS
  <2> HIDE DEF S
  <2> QED BY <1>1, <1>2, <2>1, SetInduction
<1> QED BY <1>3

LEMMA SumsAre ==
    ASSUME NEW a \in Seq(Nat)
    PROVE  \E f : AreSums(f, a, Len(a)) /\ SumOf(a) = f[Len(a)]
<1> DEFINE f == CHOOSE f : AreSums(f, a, Len(a))
<1>1. AreSums(f, a, Len(a))
  <2>1. Len(a) \in Nat
    OBVIOUS
  <2> QED BY <2>1, SumsExist
<1>2. SumOf(a) = f[Len(a)]
  BY Zenon DEF SumOf, AreSums
<1> HIDE DEF f
<1> QED BY <1>1, <1>2

\* A sequence sums to its first size and the sum of the others.
LEMMA SumCons ==
    ASSUME NEW a \in Seq(Nat), NEW b \in Seq(Nat), Len(a) = Len(b) + 1,
           \A k \in 1 .. Len(b) : b[k] = a[k + 1]
    PROVE  SumOf(b) \in Nat /\ SumOf(a) = a[1] + SumOf(b)
<1>1. PICK f : AreSums(f, a, Len(a)) /\ SumOf(a) = f[Len(a)]
  BY SumsAre
<1>2. PICK g : AreSums(g, b, Len(b)) /\ SumOf(b) = g[Len(b)]
  BY SumsAre
<1> DEFINE n == Len(b)
           S == {i \in Nat : i <= n => g[i] \in Nat /\ f[i] = g[i]}
<1>3. n \in Nat /\ Len(a) = n + 1
  OBVIOUS
<1>c. \A k \in 1 .. n : b[k] = a[k + 1] /\ b[k] \in Nat
  OBVIOUS
<1>d. a[1] \in Nat
  BY <1>3
<1>e. /\ f = [i \in 0 .. n + 1 |-> IF i = 0 THEN 0 ELSE f[i - 1] + a[n + 1 + 1 - i]]
      /\ g = [i \in 0 .. n |-> IF i = 0 THEN 0 ELSE g[i - 1] + b[n + 1 - i]]
  BY <1>1, <1>2, <1>3 DEF AreSums
<1>f. SumOf(a) = f[n + 1] /\ SumOf(b) = g[n]
  BY <1>1, <1>2, <1>3
<1> HIDE DEF n
<1>4. \A i \in 0 .. n + 1 : f[i] = IF i = 0 THEN 0 ELSE f[i - 1] + a[n + 2 - i]
  <2>1. ASSUME NEW i \in 0 .. n + 1
        PROVE  f[i] = IF i = 0 THEN 0 ELSE f[i - 1] + a[n + 1 + 1 - i]
    BY <1>e
  <2>2. \A i \in 0 .. n + 1 : n + 1 + 1 - i = n + 2 - i
    BY <1>3
  <2> QED BY <2>1, <2>2
<1>5. \A i \in 0 .. n : g[i] = IF i = 0 THEN 0 ELSE g[i - 1] + b[n + 1 - i]
  BY <1>e
<1>6. 0 \in S
  BY <1>3, <1>4, <1>5
<1>7. ASSUME NEW i \in S PROVE i + 1 \in S
  <2> SUFFICES ASSUME i + 1 <= n PROVE g[i + 1] \in Nat /\ f[i + 1] = g[i + 1]
    OBVIOUS
  <2>1. g[i] \in Nat /\ f[i] = g[i]
    BY <1>3
  <2>2. PICK k \in 1 .. n : k = n - i
    BY <1>3
  <2>3. /\ i + 1 \in 0 .. n /\ i + 1 \in 0 .. n + 1 /\ i + 1 # 0 /\ (i + 1) - 1 = i
        /\ n + 1 - (i + 1) = k /\ n + 2 - (i + 1) = k + 1
    BY <1>3, <2>2
  <2>4. b[k] = a[k + 1] /\ b[k] \in Nat
    BY <1>c
  <2>5. g[i + 1] = g[i] + b[k]
    BY <1>5, <2>3
  <2>6. f[i + 1] = f[i] + a[k + 1]
    <3>1. f[i + 1] = f[(i + 1) - 1] + a[n + 2 - (i + 1)]
      BY <1>4, <2>3
    <3> QED BY <2>3, <3>1
  <2>7. g[i + 1] \in Nat /\ g[i + 1] = f[i] + a[k + 1]
    <3>1. \A u, v \in Nat : u + v \in Nat
      OBVIOUS
    <3>2. g[i] + b[k] \in Nat
      BY <2>1, <2>4, <3>1, Zenon
    <3> QED BY <2>1, <2>4, <2>5, <3>2, Zenon
  <2> QED BY <2>6, <2>7, Zenon
<1>8. S = Nat
  <2>1. S \in SUBSET Nat
    OBVIOUS
  <2> HIDE DEF S
  <2> QED BY <1>6, <1>7, <2>1, SetInduction
<1>9. g[n] \in Nat /\ f[n] = g[n]
  <2>1. n \in S
    <3> HIDE DEF S
    <3> QED BY <1>3, <1>8
  <2>2. n <= n
    BY <1>3
  <2> QED BY <2>1, <2>2
<1>10. f[n + 1] = f[n] + a[1]
  <2>1. n + 1 \in 0 .. n + 1 /\ n + 1 # 0 /\ (n + 1) - 1 = n /\ n + 2 - (n + 1) = 1
    BY <1>3
  <2> QED BY <1>4, <2>1
<1> QED BY <1>d, <1>f, <1>9, <1>10

LEMMA SizesTyped ==
    ASSUME NEW T, \A m \in T : Size(m) \in Nat, NEW z \in Seq(T)
    PROVE  LET a == [k \in 1 .. Len(z) |-> Size(z[k])] IN a \in Seq(Nat) /\ Len(a) = Len(z)
<1>1. \A k \in 1 .. Len(z) : z[k] \in T
  OBVIOUS
<1>2. \A k \in 1 .. Len(z) : Size(z[k]) \in Nat
  BY <1>1
<1> QED BY <1>2

\* A suffix and the message before it.
LEMMA SuffixTotal ==
    ASSUME NEW T, NEW s \in Seq(T), \A m \in T : Size(m) \in Nat, NEW i \in 2 .. Len(s) + 1
    PROVE  /\ Total(SubSeq(s, i, Len(s))) \in Nat
           /\ Total(SubSeq(s, i - 1, Len(s))) = Size(s[i - 1]) + Total(SubSeq(s, i, Len(s)))
<1> DEFINE u == SubSeq(s, i - 1, Len(s))
           w == SubSeq(s, i, Len(s))
           a == [k \in 1 .. Len(u) |-> Size(u[k])]
           b == [k \in 1 .. Len(w) |-> Size(w[k])]
<1>1. /\ Len(s) \in Nat /\ u \in Seq(T) /\ w \in Seq(T)
      /\ Len(w) = Len(s) - i + 1 /\ Len(u) = Len(w) + 1
      /\ u[1] = s[i - 1]
  OBVIOUS
<1>2. \A k \in 1 .. Len(w) : w[k] = u[k + 1]
  OBVIOUS
<1> HIDE DEF u, w
<1>3. a \in Seq(Nat) /\ b \in Seq(Nat) /\ Len(a) = Len(u) /\ Len(b) = Len(w)
  BY <1>1, SizesTyped
<1>4. \A k \in 1 .. Len(b) : b[k] = a[k + 1]
  BY <1>1, <1>2, <1>3
<1>5. a[1] = Size(s[i - 1])
  BY <1>1
<1>6. Total(u) = SumOf(a) /\ Total(w) = SumOf(b)
  BY DEF Total
<1> HIDE DEF a, b
<1>7. SumOf(b) \in Nat /\ SumOf(a) = a[1] + SumOf(b)
  BY <1>1, <1>3, <1>4, SumCons
<1> QED BY <1>5, <1>6, <1>7 DEF u, w

LEMMA SizesAreNatural ==
    ASSUME QueryInv, Settled
    PROVE  \A m \in Saved : Size(m) \in Nat
<1> SUFFICES ASSUME NEW m \in Saved PROVE Size(m) \in Nat
  OBVIOUS
<1>1. m[1] \in Requests /\ (m[2] = "user" \/ m = <<m[1], "assistant">>)
  BY DEF Saved, Message
<1>2. m[2] # "user" => answer[m[1]] \in Requests
  BY <1>1 DEF Settled, SettledAt, QueryInv, TypeOK
<1>3. CASE m[2] = "user"
  BY <1>3 DEF Size
<1>4. CASE m[2] # "user"
  <2>1. length[answer[m[1]]] \in AnswerLengths \cup {0}
    BY <1>2, <1>4 DEF QueryInv, TypeOK
  <2>2. length[answer[m[1]]] \in Nat
    <3>1. AnswerLengths \cup {0} \subseteq Nat
      BY QueryAssumption
    <3> QED BY <2>1, <3>1
  <2> QED BY <1>4, <2>2 DEF Size
<1> QED BY <1>3, <1>4

\* What Load leaves out of a thread is older than a message it dropped for the budget,
\* or beyond the limit.
LEMMA LoadRecalls ==
    ASSUME QueryInv, Settled, NEW c, NEW s \in Latest(c), NEW h \in Trim(s), NEW m \in Thread(c)
    PROVE  \/ m \in Range(h)
           \/ Len(h) = HistoryMax
           \/ \E d \in Thread(c) \ Range(h) : stamp[d] >= stamp[m] /\ Total(h) + Size(d) > Budget
<1>1. /\ s \in Seq(Thread(c)) /\ Len(s) \in Nat
      /\ \A i, j \in 1 .. Len(s) : i < j => s[i] # s[j] /\ stamp[s[i]] <= stamp[s[j]]
      /\ \A d \in Thread(c) \ Range(s) : /\ Len(s) = HistoryMax
                                         /\ \A i \in 1 .. Len(s) : stamp[d] <= stamp[s[i]]
  BY LatestFacts
<1>2. PICK i \in 1 .. Len(s) + 1 : /\ h = SubSeq(s, i, Len(s))
                                   /\ \A j \in 1 .. i - 1 : ~Fits(SubSeq(s, j, Len(s)))
  BY DEF Trim
<1>3. CASE i = 1
  <2>1. h = s
    BY <1>1, <1>2, <1>3
  <2> QED BY <1>1, <2>1
<1>4. CASE i > 1 /\ m \notin Range(h)
  <2> DEFINE d == s[i - 1]
  <2>1. i \in 2 .. Len(s) + 1 /\ i - 1 \in 1 .. Len(s) /\ d \in Thread(c)
    BY <1>1, <1>4
  <2>2. /\ h \in Seq(Thread(c)) /\ Len(h) = Len(s) - i + 1
        /\ \A k \in 1 .. Len(h) : h[k] = s[i + k - 1]
    BY <1>1, <1>2, <2>1
  <2>3. d \notin Range(h)
    <3> SUFFICES ASSUME NEW k \in 1 .. Len(h), h[k] = d PROVE FALSE
      BY <2>2 DEF Range
    <3>1. i + k - 1 \in 1 .. Len(s) /\ i - 1 < i + k - 1
      BY <1>1, <2>1, <2>2
    <3> QED BY <1>1, <2>1, <2>2, <3>1
  <2>4. stamp[d] >= stamp[m]
    <3>1. CASE m \notin Range(s)
      BY <1>1, <2>1, <3>1
    <3>2. CASE m \in Range(s)
      <4>1. PICK k \in 1 .. Len(s) : m = s[k]
        BY <1>1, <3>2 DEF Range
      <4>2. CASE k < i - 1
        BY <1>1, <2>1, <4>1, <4>2
      <4>3. CASE k = i - 1
        <5>1. m \in Message
          BY DEF Thread, Saved
        <5>2. stamp[m] \in Nat
          BY <5>1 DEF QueryInv, TypeOK
        <5> QED BY <4>1, <4>3, <5>2
      <4>4. CASE k >= i
        <5>1. k - i + 1 \in 1 .. Len(h) /\ i + (k - i + 1) - 1 = k
          BY <1>1, <2>1, <2>2, <4>4
        <5>2. h[k - i + 1] = m
          BY <2>2, <4>1, <5>1
        <5> QED BY <1>4, <2>2, <5>1, <5>2 DEF Range
      <4> QED BY <2>1, <4>2, <4>3, <4>4
    <3> QED BY <3>1, <3>2
  <2>5. Total(h) + Size(d) > Budget
    <3>1. \A e \in Thread(c) : Size(e) \in Nat
      BY SizesAreNatural DEF Thread
    <3>2. Total(h) \in Nat /\ Total(SubSeq(s, i - 1, Len(s))) = Size(d) + Total(h)
      BY <1>1, <1>2, <2>1, <3>1, SuffixTotal
    <3>3. i - 1 \in 1 .. i - 1
      BY <2>1
    <3>4. ~ (Size(d) + Total(h) <= Budget)
      BY <1>2, <3>2, <3>3 DEF Fits
    <3>5. Size(d) \in Nat
      BY <2>1, <3>1
    <3> HIDE DEF d
    <3> QED BY <3>2, <3>4, <3>5
  <2> QED BY <2>1, <2>3, <2>4, <2>5
<1> QED BY <1>2, <1>3, <1>4

LEMMA ReadBackKept == QueryInv /\ Settled /\ Recalls /\ ReadBack /\ Next => ReadBack'
<1> SUFFICES ASSUME QueryInv, Settled, Recalls, ReadBack, Next, NEW r \in Requests,
                    pc'[r] \notin {"new", "load", "over"}, NEW x \in context'[r]
             PROVE  Recalled(r, x)'
  BY DEF ReadBack
<1>1. Kept
  BY NothingIsRewritten
<1> DEFINE a == <<x, "assistant">>
<1>2. CASE Load(r)
  <2>1. PICK s \in Latest(turn[r].conversation) : \E h \in Trim(s) : history' = [history EXCEPT ![r] = h]
    BY <1>2 DEF Load
  <2>2. PICK h \in Trim(s) : history' = [history EXCEPT ![r] = h]
    BY <2>1
  <2>3. history'[r] = h /\ x \in context[r]
    BY <1>2, <2>2 DEF QueryInv, TypeOK, Load
  <2>4. a \in Thread(turn[r].conversation) /\ a \in Saved
    BY <2>3 DEF Recalls, Thread
  <2>5. \/ a \in Range(h)
        \/ Len(h) = HistoryMax
        \/ \E d \in Thread(turn[r].conversation) \ Range(h) :
              stamp[d] >= stamp[a] /\ Total(h) + Size(d) > Budget
    BY <2>4, LoadRecalls
  <2>6. /\ answer' = answer /\ length' = length /\ stamp' = stamp /\ turn' = turn
    BY <1>2 DEF Load, rows
  <2>7. Total(h)' = Total(h) /\ Saved' = Saved /\ \A d : Size(d)' = Size(d)
    BY <2>6 DEF Total, Size, Saved
  <2>8. Thread(turn[r].conversation)' = Thread(turn[r].conversation)
    BY <2>6, <2>7 DEF Thread
  <2>9. Total(history[r])' = Total(h)'
    BY <2>3 DEF Total
  <2> QED BY <2>3, <2>4, <2>5, <2>6, <2>7, <2>8, <2>9 DEF Recalled
<1>3. CASE ~Load(r)
  <2>1. history'[r] = history[r]
    BY <1>3, Histories DEF QueryInv
  <2>2. pc[r] \notin {"new", "load", "over"} /\ turn[r] # None
    <3>1. pc[r] \notin {"new", "load", "over"}
      <4> SUFFICES ASSUME pc[r] \in {"new", "load", "over"} PROVE FALSE
        OBVIOUS
      <4>1. pc \in [Requests -> Steps] /\ pc'[r] # pc[r]
        BY DEF QueryInv, TypeOK, Steps
      <4>2. ASSUME NEW z \in Requests, NEW t \in Turn, Begin(z, t) \/ NotFound(z, t) PROVE FALSE
        BY <4>1, <4>2 DEF Begin, NotFound, Proceed, Show
      <4>3. ASSUME NEW z \in Requests, Load(z) PROVE FALSE
        BY <1>3, <4>1, <4>3 DEF Load, Proceed
      <4>4. ASSUME NEW z \in Requests, Run(z) \/ Hit(z) \/ Miss(z) \/ Store(z) PROVE FALSE
        BY <4>1, <4>4 DEF Run, Hit, Miss, Store, Proceed
      <4>5. ASSUME NEW z \in Requests, Commit(z) \/ CommitQuestion(z) \/ Persist(z) PROVE FALSE
        BY <4>1, <4>5 DEF Commit, CommitQuestion, Persist, Committed, Proceed, Fail
      <4>6. ASSUME NEW z \in Requests, Respond(z) \/ Emit(z) \/ Finish(z) PROVE FALSE
        BY <4>1, <4>6 DEF Respond, Emit, Finish, Show
      <4>7. ASSUME NEW z \in Requests, CallFails(z) \/ Abandon(z) PROVE FALSE
        BY <4>1, <4>7 DEF CallFails, Abandon, Fail
      <4>8. ASSUME NEW u \in Users, NEW q \in Questions, Expire(u, q) PROVE FALSE
        BY <4>1, <4>8 DEF Expire
      <4> QED
        BY <4>2, <4>3, <4>4, <4>5, <4>6, <4>7, <4>8 DEF Next, Step, Open, Continue
    <3> QED BY <3>1 DEF QueryInv, AtItsStep
  <2>3. turn'[r] = turn[r] /\ x \in context[r]
    BY <1>1, <2>2 DEF Kept
  <2>4. Recalled(r, x)
    BY <2>2, <2>3 DEF ReadBack
  <2>5. Total(history[r])' = Total(history[r])
    BY <1>1, <2>1, SameTotal
  <2>6. ASSUME NEW d \in Thread(turn[r].conversation)
        PROVE  /\ d \in Thread(turn[r].conversation)' /\ stamp'[d] = stamp[d] /\ Size(d)' = Size(d)
    <3>1. d \in Saved /\ turn[d[1]] # None /\ d[1] \in Requests
      BY SavedHasTurn DEF Thread
    <3> QED BY <1>1, <2>3, <3>1 DEF Kept, Thread
  <2>7. a \in Saved => a \in Saved' /\ stamp'[a] = stamp[a]
    BY <1>1 DEF Kept
  <2> QED BY <2>1, <2>3, <2>4, <2>5, <2>6, <2>7 DEF Recalled
<1> QED BY <1>2, <1>3

LEMMA InitMemory == Init => MemoryInv
<1> SUFFICES ASSUME Init PROVE MemoryInv
  OBVIOUS
<1>1. Saved = {} /\ \A r \in Requests : history[r] = << >>
  BY DEF Init, Saved
<1>2. Total(<< >>) = 0
  <2>1. << >> \in Seq(Nat) /\ Len(<< >>) = 0
    OBVIOUS
  <2>2. PICK f : AreSums(f, << >>, 0) /\ SumOf(<< >>) = f[0]
    BY <2>1, SumsAre
  <2>3. f[0] = 0
    BY <2>2 DEF AreSums
  <2>4. [i \in 1 .. Len(<< >>) |-> Size(<< >>[i])] = << >>
    OBVIOUS
  <2> QED BY <2>2, <2>3, <2>4 DEF Total
<1>3. HistoryIsBounded
  BY <1>1, <1>2 DEF HistoryIsBounded
<1> QED
  BY <1>1, <1>3, InitQuery
  DEF Init, MemoryInv, Settled, SettledAt, Recalls, ReadBack

LEMMA NextMemory == MemoryInv /\ [Next]_vars => MemoryInv'
<1> SUFFICES ASSUME MemoryInv, [Next]_vars PROVE MemoryInv'
  OBVIOUS
<1>1. CASE UNCHANGED vars
  <2>1. QueryInv'
    BY <1>1, NextQuery DEF MemoryInv
  <2>2. \A h : Total(h)' = Total(h)
    BY <1>1 DEF vars, handler, Total, Size
  <2>3. HistoryIsBounded'
    BY <1>1, <2>2 DEF vars, handler, MemoryInv, HistoryIsBounded
  <2>4. Saved' = Saved /\ (\A d : Thread(d)' = Thread(d)) /\ \A d : Size(d)' = Size(d)
    BY <1>1 DEF vars, rows, handler, Saved, Thread, Size
  <2>5. ReadBack'
    BY <1>1, <2>2, <2>4 DEF vars, rows, handler, MemoryInv, ReadBack, Recalled
  <2>6. Settled' /\ Recalls'
    BY <1>1, <2>4 DEF vars, rows, handler, MemoryInv, Settled, SettledAt, Recalls
  <2> QED BY <2>1, <2>3, <2>5, <2>6 DEF MemoryInv
<1>2. CASE Next
  BY <1>2, NextQuery, SettledKept, BoundKept, RecallsKept, ReadBackKept DEF MemoryInv
<1> QED BY <1>1, <1>2

\* Saved messages never change, and histories are within the limits and hold what
\* their clients had seen: whatever both endpoints write at the same time.
THEOREM MemoryInvariance == Spec => []MemoryInv
<1> QED BY InitMemory, NextMemory, PTL DEF Spec

\* A history is within both limits when it is loaded, and the messages in it never
\* grow afterwards: a graph is always given a bounded prompt.
THEOREM HistoriesAreBounded == Spec => []HistoryIsBounded
<1>1. MemoryInv => HistoryIsBounded
  BY DEF MemoryInv
<1> QED BY <1>1, MemoryInvariance, PTL

\* What a client has seen answered is in the history of its next question, or newer
\* messages took its place within the limits.
THEOREM ClientsReadTheirWrites == Spec => []ReadsItsOwnWrites
<1>1. MemoryInv => ReadsItsOwnWrites
  BY DEF MemoryInv, ReadBack, Recalled, ReadsItsOwnWrites
<1> QED BY <1>1, MemoryInvariance, PTL

-----------------------------------------------------------------------------
(* What is left of "oldest first": histories go by created_at, and a streamed  *)
(* turn has two of them.                                                       *)

ByTime ==
    \A r \in Requests : \A i, j \in 1 .. Len(history[r]) :
        i < j => stamp[history[r][i]] <= stamp[history[r][j]]

StreamedApart ==
    \A r \in Requests : turn[r] # None /\ Streams(r) /\ <<r, "assistant">> \in Saved =>
        stamp[<<r, "user">>] < stamp[<<r, "assistant">>]

OrderInv == MemoryInv /\ ByTime /\ StreamedApart

LEMMA ByTimeKept == QueryInv /\ Settled /\ ByTime /\ Next => ByTime'
<1> SUFFICES ASSUME QueryInv, Settled, ByTime, Next, NEW r \in Requests,
                    NEW i \in 1 .. Len(history'[r]), NEW j \in 1 .. Len(history'[r]), i < j
             PROVE  stamp'[history'[r][i]] <= stamp'[history'[r][j]]
  BY DEF ByTime
<1>1. CASE history'[r] = history[r]
  <2>1. history[r][i] \in Saved /\ history[r][j] \in Saved
    BY <1>1 DEF QueryInv, TypeOK, OwnHistoryOnly, Thread, Range
  <2>2. stamp[history[r][i]] <= stamp[history[r][j]]
    BY <1>1 DEF ByTime
  <2>3. Kept
    BY NothingIsRewritten
  <2> QED BY <1>1, <2>1, <2>2, <2>3 DEF Kept
<1>2. CASE Load(r)
  <2>1. PICK s \in Latest(turn[r].conversation) : \E h \in Trim(s) : history' = [history EXCEPT ![r] = h]
    BY <1>2 DEF Load
  <2>2. PICK h \in Trim(s) : history' = [history EXCEPT ![r] = h]
    BY <2>1
  <2>3. history'[r] = h /\ stamp' = stamp
    BY <1>2, <2>2 DEF QueryInv, TypeOK, Load, rows
  <2>4. PICK k \in 1 .. Len(s) + 1 : h = SubSeq(s, k, Len(s))
    BY DEF Trim
  <2>5. /\ s \in Seq(Thread(turn[r].conversation)) /\ Len(s) \in Nat
        /\ \A u, v \in 1 .. Len(s) : u < v => stamp[s[u]] <= stamp[s[v]]
    BY LatestFacts
  <2>6. /\ k + i - 1 \in 1 .. Len(s) /\ k + j - 1 \in 1 .. Len(s) /\ k + i - 1 < k + j - 1
        /\ h[i] = s[k + i - 1] /\ h[j] = s[k + j - 1]
    BY <2>3, <2>4, <2>5
  <2> QED BY <2>3, <2>5, <2>6
<1> QED BY <1>1, <1>2, Histories DEF QueryInv

LEMMA ApartKept == QueryInv /\ Settled /\ StreamedApart /\ Next => StreamedApart'
<1> SUFFICES ASSUME QueryInv, Settled, StreamedApart, Next, NEW r \in Requests,
                    turn'[r] # None, Streams(r)', <<r, "assistant">> \in Saved'
             PROVE  stamp'[<<r, "user">>] < stamp'[<<r, "assistant">>]
  BY DEF StreamedApart
<1>a. Kept
  BY NothingIsRewritten
<1>b. /\ <<r, "user">> \in Message /\ <<r, "assistant">> \in Message /\ clock \in Nat
      /\ stamp \in [Message -> 0 .. clock]
  BY DEF Message, QueryInv, TypeOK
<1>1. CASE <<r, "assistant">> \in Saved
  <2>1. <<r, "user">> \in Saved
    BY <1>1 DEF QueryInv, Rows, TurnsAreWhole
  <2>2. turn[r] # None /\ turn'[r] = turn[r]
    BY <1>a, <2>1 DEF QueryInv, Rows, Written, Kept
  <2> QED BY <1>1, <1>a, <2>1, <2>2 DEF StreamedApart, Streams, Kept
<1>2. CASE <<r, "assistant">> \notin Saved
  <2>1. stamp'[<<r, "assistant">>] # stamp[<<r, "assistant">>]
    BY <1>2, <1>b DEF Saved
  <2>2. ASSUME NEW x \in Requests, Persist(x) PROVE stamp'[<<r, "user">>] < stamp'[<<r, "assistant">>]
    <3>1. x = r
      BY <1>b, <2>1, <2>2 DEF Persist
    <3>2. stamp' = [stamp EXCEPT ![<<r, "assistant">>] = clock + 1]
      BY <2>2, <3>1 DEF Persist
    <3>3. stamp'[<<r, "assistant">>] = clock + 1 /\ stamp'[<<r, "user">>] = stamp[<<r, "user">>]
      BY <1>b, <3>2
    <3> QED BY <1>b, <3>3
  <2>3. ASSUME NEW x \in Requests, Commit(x) PROVE FALSE
    <3>1. x = r
      BY <1>b, <2>1, <2>3 DEF Commit
    <3>2. ~ Streams(r) /\ turn' = turn
      BY <2>3, <3>1 DEF Commit, QueryInv, AtItsStep, handler
    <3> QED BY <3>2 DEF Streams
  <2>4. ASSUME NEW x \in Requests, CommitQuestion(x) PROVE FALSE
    BY <1>b, <2>1, <2>4 DEF CommitQuestion
  <2>5. \/ \E x \in Requests : Commit(x) \/ CommitQuestion(x) \/ Persist(x)
        \/ stamp' = stamp
    BY DEF Next, Step, Open, Continue, Begin, NotFound, Load, Run, Respond, Hit, Miss, Emit,
           Store, Finish, CallFails, Abandon, Expire, rows
  <2> QED BY <2>1, <2>2, <2>3, <2>4, <2>5
<1> QED BY <1>1, <1>2

\* The order the docstring of load_recent_history promises does hold for the turns of
\* POST /query/stream, whose answer is stamped by a later transaction: an answer never
\* precedes its question.  The turns of POST /query are what breaks OldestFirst.
StreamedTurnsInOrder ==
    \A r \in Requests : \A i, j \in DOMAIN history[r] :
        i < j /\ Streams(history[r][i][1]) =>
            ~ (history[r][i][2] = "assistant" /\ history[r][j] = <<history[r][i][1], "user">>)

\* Streamed turns are read oldest first, whatever else the conversation holds.
THEOREM StreamedOldestFirst == Spec => []StreamedTurnsInOrder
<1>1. Init => OrderInv
  <2> SUFFICES ASSUME Init PROVE OrderInv
    OBVIOUS
  <2>1. MemoryInv
    BY InitMemory
  <2>2. ByTime /\ StreamedApart
    BY DEF Init, ByTime, StreamedApart
  <2> QED BY <2>1, <2>2 DEF OrderInv
<1>2. OrderInv /\ [Next]_vars => OrderInv'
  <2> SUFFICES ASSUME OrderInv, [Next]_vars PROVE OrderInv'
    OBVIOUS
  <2>1. MemoryInv'
    BY NextMemory DEF OrderInv
  <2>2. CASE UNCHANGED vars
    BY <2>1, <2>2 DEF vars, rows, handler, OrderInv, ByTime, StreamedApart, Streams, Saved
  <2>3. CASE Next
    BY <2>1, <2>3, ByTimeKept, ApartKept DEF OrderInv, MemoryInv
  <2> QED BY <2>2, <2>3
<1>3. OrderInv => StreamedTurnsInOrder
  <2> SUFFICES ASSUME OrderInv, NEW r \in Requests, NEW i \in DOMAIN history[r], NEW j \in DOMAIN history[r],
                      i < j, Streams(history[r][i][1]), history[r][i][2] = "assistant",
                      history[r][j] = <<history[r][i][1], "user">>
               PROVE  FALSE
    BY DEF StreamedTurnsInOrder
  <2> DEFINE x == history[r][i][1]
  <2>1. /\ QueryInv /\ history[r] \in Seq(Message) /\ i \in 1 .. Len(history[r]) /\ j \in 1 .. Len(history[r])
    BY DEF OrderInv, MemoryInv, QueryInv, TypeOK
  <2>2. history[r][i] \in Saved
    BY <2>1 DEF QueryInv, OwnHistoryOnly, Thread, Range
  <2>3. x \in Requests /\ history[r][i] = <<x, "assistant">> /\ turn[x] # None
    BY <2>1, <2>2, SavedHasTurn DEF Saved, Message
  <2>4. stamp[<<x, "user">>] < stamp[<<x, "assistant">>]
    BY <2>2, <2>3 DEF OrderInv, StreamedApart
  <2>5. stamp[<<x, "assistant">>] <= stamp[<<x, "user">>]
    BY <2>1, <2>3 DEF OrderInv, ByTime
  <2>6. stamp[<<x, "user">>] \in Nat /\ stamp[<<x, "assistant">>] \in Nat
    BY <2>1, <2>3 DEF QueryInv, TypeOK, Message
  <2> QED BY <2>4, <2>5, <2>6
<1> QED BY <1>1, <1>2, <1>3, PTL DEF Spec
=============================================================================
