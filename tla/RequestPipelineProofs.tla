------------------------ MODULE RequestPipelineProofs ------------------------
(***************************************************************************)
(* Theorems about the rate limit and the errors it answers with, for any   *)
(* number of requests, callers and minutes, any limit, any Redis errors    *)
(* and any choice of optional layers.                                      *)
(*                                                                         *)
(* The limit holds because nobody reaches the routes with a number above   *)
(* it (LetThrough), and because the numbers INCR hands out in the minute   *)
(* of a counter are all different (Distinct), which needs the counter to   *)
(* live to the end of its minute (Outlives, Counted).  A refusal is due    *)
(* because a counter never runs ahead of the requests that reached it      *)
(* (NotAhead).  An error reaches the browser because only the one of last  *)
(* resort is answered outside of the layers (LastResort).                  *)
(***************************************************************************)
EXTENDS RequestPipeline, FiniteSetTheorems, TLAPS

\* Where a request is, and what it has by then.
AtItsStep ==
    \A r \in Requests :
        /\ stage[r] = "new" => caller[r] = None
        /\ stage[r] \in {"new", "incr"} => at[r] = None /\ count[r] = 0
        /\ stage[r] \in {"incr", "expire"} => caller[r] \in Callers
        /\ stage[r] = "expire" => count[r] = 1 /\ at[r] # None
        /\ stage[r] # "done" => response[r] = None
        /\ response[r] # None /\ response[r].by = "limit" =>
               count[r] > Limit /\ caller[r] \in Callers
        /\ window[r] <= minute
        /\ at[r] # None => caller[r] \in Callers

\* Who reached the routes through the limit has a number within it.
LetThrough ==
    \A r \in Requests \ raised :
        caller[r] # None /\ Passed(r) => count[r] \in 1 .. Limit

\* A counter does not go before the end of its minute.
Outlives ==
    \A c \in Callers, w \in Windows : expires[c][w] # None => expires[c][w] > w

\* In its minute a counter is at least every number it handed out.
Counted ==
    \A r \in Requests :
        window[r] = minute /\ at[r] = minute => count[r] <= counter[caller[r]][minute]

\* No number is handed out twice in the minute of the counter.
Distinct ==
    \A r, q \in Requests :
        /\ r # q /\ caller[r] = caller[q] /\ window[r] = window[q]
        /\ at[r] = window[r] /\ at[q] = window[q] /\ count[r] > 0
        => count[r] # count[q]

\* A counter, and what it handed out, is at most the number of those that asked.
NotAhead ==
    \A c \in Callers, w \in Windows :
        /\ counter[c][w] <= Cardinality(Asked(c, w))
        /\ \A r \in Requests : caller[r] = c /\ window[r] = w =>
               count[r] <= Cardinality(Asked(c, w))

\* The handler outside of the stack is the one of last resort.
LastResort ==
    \A r \in Requests :
        response[r] # None /\ response[r].by = "server" => response[r].what = "unexpected"

PipelineInv ==
    /\ TypeOK /\ AtItsStep /\ LetThrough /\ Outlives /\ Counted /\ Distinct /\ NotAhead
    /\ LeaksHaveACause /\ LastResort

USE PipelineAssumption

-----------------------------------------------------------------------------
\* One counter is set and the others stay.
LEMMA SetOne ==
    ASSUME NEW V, NEW f \in [Callers -> [Windows -> V]],
           NEW c \in Callers, NEW w \in Windows, NEW x \in V
    PROVE  /\ [f EXCEPT ![c][w] = x] \in [Callers -> [Windows -> V]]
           /\ \A d \in Callers, v \in Windows :
                  [f EXCEPT ![c][w] = x][d][v] = IF d = c /\ v = w THEN x ELSE f[d][v]
<1>1. [f[c] EXCEPT ![w] = x] \in [Windows -> V]
  OBVIOUS
<1> QED BY <1>1

\* Another request makes the set of those that asked one larger, or leaves it.
LEMMA AskedGrows ==
    ASSUME NEW c, NEW w, NEW S \in SUBSET Requests, NEW T \in SUBSET Requests,
           NEW r \in Requests
    PROVE  /\ IsFiniteSet(S) /\ Cardinality(S) \in Nat
           /\ r \notin S /\ T = S \cup {r} => Cardinality(T) = Cardinality(S) + 1
<1>1. IsFiniteSet(S)
  BY FS_Subset
<1> QED BY <1>1, FS_AddElement, FS_CardinalityType

LEMMA InitPipeline == Init => PipelineInv
<1> SUFFICES ASSUME Init PROVE PipelineInv
  OBVIOUS
<1>1. TypeOK
  BY DEF Init, TypeOK, Windows
<1>2. /\ AtItsStep /\ LetThrough /\ Outlives /\ Counted /\ Distinct
      /\ LeaksHaveACause /\ LastResort
  BY DEF Init, AtItsStep, LetThrough, Outlives, Counted, Distinct, LeaksHaveACause, LastResort, Windows
<1>3. NotAhead
  <2> SUFFICES ASSUME NEW c \in Callers, NEW w \in Windows
               PROVE  0 <= Cardinality(Asked(c, w))
    BY DEF Init, NotAhead
  <2>1. Asked(c, w) \in SUBSET Requests
    BY DEF Asked
  <2> QED BY <2>1, FS_Subset, FS_CardinalityType
<1> QED BY <1>1, <1>2, <1>3 DEF PipelineInv

-----------------------------------------------------------------------------
\* Every variable keeps its type.
LEMMA Types == TypeOK /\ AtItsStep /\ Next => TypeOK'
<1> SUFFICES ASSUME TypeOK, AtItsStep, Next PROVE TypeOK'
  OBVIOUS
<1> USE DEF TypeOK, redis, request, Answer, Goto
<1>a. ASSUME NEW r \in Requests, NEW n \in Nat, Decide(r, n)
      PROVE  /\ stage' \in [Requests -> {"new", "incr", "expire", "app", "done"}]
             /\ response' \in [Requests -> Response \cup {None}]
  <2>1. [by |-> "limit", what |-> "refused"] \in Response
    BY DEF Response, Layers
  <2>2. CASE n > Limit
    <3>1. /\ stage' = [stage EXCEPT ![r] = "done"]
          /\ response' = [response EXCEPT ![r] = [by |-> "limit", what |-> "refused"]]
      BY <1>a, <2>2 DEF Decide
    <3> QED BY <3>1, <2>1
  <2>3. CASE ~(n > Limit)
    BY <1>a, <2>3 DEF Decide
  <2> QED BY <2>2, <2>3
<1>1. ASSUME NEW r \in Requests, NEW k \in Kinds, Receive(r, k) PROVE TypeOK'
  BY <1>1 DEF Receive, Kinds, Response, Layers, Outcomes
<1>2. ASSUME NEW r \in Requests, NEW c \in Callers, Identify(r, c) PROVE TypeOK'
  BY <1>2 DEF Identify
<1>3. ASSUME NEW r \in Requests, Incr(r) PROVE TypeOK'
  <2>1. caller[r] \in Callers /\ window[r] \in Windows
    BY <1>3 DEF Incr, AtItsStep
  <2> DEFINE n == counter[caller[r]][window[r]] + 1
  <2>2. n \in Nat
    BY <2>1
  <2> HIDE DEF n
  <2>3. /\ counter' = [counter EXCEPT ![caller[r]][window[r]] = n]
        /\ count' = [count EXCEPT ![r] = n]
        /\ (n = 1 /\ Goto(r, "expire")) \/ Decide(r, n)
    BY <1>3 DEF Incr, n
  <2>4. counter' \in [Callers -> [Windows -> Nat]]
    BY <2>1, <2>2, <2>3, SetOne
  <2>5. /\ stage' \in [Requests -> {"new", "incr", "expire", "app", "done"}]
        /\ response' \in [Requests -> Response \cup {None}]
    BY <1>a, <2>2, <2>3
  <2>6. count' \in [Requests -> Nat]
    BY <2>2, <2>3
  <2>7. at' \in [Requests -> Windows \cup {None}]
    BY <1>3 DEF Incr
  <2>8. /\ UNCHANGED <<optional, minute, expires, raised>>
        /\ UNCHANGED caller /\ UNCHANGED window
    BY <1>3 DEF Incr
  <2> QED BY <2>4, <2>5, <2>6, <2>7, <2>8
<1>4. ASSUME NEW r \in Requests, Expire(r) PROVE TypeOK'
  <2>1. caller[r] \in Callers /\ window[r] \in Windows /\ minute + 1 \in Nat \cup {None}
    BY <1>4 DEF Expire, AtItsStep, Windows
  <2>2. expires' \in [Callers -> [Windows -> Nat \cup {None}]]
    BY <1>4, <2>1, SetOne DEF Expire
  <2>3. /\ stage' \in [Requests -> {"new", "incr", "expire", "app", "done"}]
        /\ response' \in [Requests -> Response \cup {None}]
    BY <1>a, <1>4 DEF Expire
  <2> QED BY <1>4, <2>2, <2>3 DEF Expire
<1>5. ASSUME NEW r \in Requests, FailOpen(r) PROVE TypeOK'
  <2>1. caller[r] \in Callers /\ window[r] \in Windows /\ minute + 1 \in Nat \cup {None}
    BY <1>5 DEF FailOpen, AtItsStep, Windows
  <2>2. counter[caller[r]][window[r]] + 1 \in Nat
    BY <2>1
  <2>3. \/ counter' = counter
        \/ counter' = [counter EXCEPT ![caller[r]][window[r]] = counter[caller[r]][window[r]] + 1]
    BY <1>5 DEF FailOpen
  <2>a. [counter EXCEPT ![caller[r]][window[r]] = counter[caller[r]][window[r]] + 1]
            \in [Callers -> [Windows -> Nat]]
    BY <2>1, <2>2, SetOne
  <2>b. [expires EXCEPT ![caller[r]][window[r]] = minute + 1]
            \in [Callers -> [Windows -> Nat \cup {None}]]
    BY <2>1, SetOne
  <2>4. counter' \in [Callers -> [Windows -> Nat]]
    BY <2>a, <2>3
  <2>c. expires' = expires \/ expires' = [expires EXCEPT ![caller[r]][window[r]] = minute + 1]
    BY <1>5 DEF FailOpen
  <2>5. expires' \in [Callers -> [Windows -> Nat \cup {None}]]
    BY <2>b, <2>c
  <2>6. raised' \subseteq Requests
    BY <1>5 DEF FailOpen
  <2> QED BY <1>5, <2>4, <2>5, <2>6 DEF FailOpen
<1>6. ASSUME NEW r \in Requests, Handle(r) PROVE TypeOK'
  BY <1>6 DEF Handle, Response, Layers, Outcomes
<1>7. CASE Tick
  BY <1>7 DEF Tick, Windows
<1>8. ASSUME NEW c \in Callers, NEW w \in Windows, Evict(c, w) PROVE TypeOK'
  BY <1>8, SetOne DEF Evict
<1> QED BY <1>1, <1>2, <1>3, <1>4, <1>5, <1>6, <1>7, <1>8 DEF Next

-----------------------------------------------------------------------------
\* What the steps do to a request: its number is not changed once it has one, and
\* only a request over the limit is refused.
LEMMA DecideMoves ==
    ASSUME TypeOK, NEW r \in Requests, NEW n \in Nat, Decide(r, n)
    PROVE  /\ \A q \in Requests \ {r} : stage'[q] = stage[q] /\ response'[q] = response[q]
           /\ \/ stage'[r] = "app" /\ response'[r] = response[r]
              \/ stage'[r] = "done" /\ n > Limit
           /\ response[r] = None /\ n > 0 /\ Passed(r)' => n \in 1 .. Limit
BY DEF Passed,  Decide, Answer, Goto, TypeOK

\* Incr adds one to the counter and hands it out.
LEMMA IncrMoves ==
    ASSUME TypeOK, AtItsStep, NEW r \in Requests, Incr(r)
    PROVE  LET n == counter[caller[r]][window[r]] + 1 IN
           /\ stage[r] = "incr" /\ caller[r] \in Callers /\ window[r] \in Windows
           /\ n \in Nat /\ n > 0
           /\ \A d \in Callers, v \in Windows :
                  counter'[d][v] = IF d = caller[r] /\ v = window[r] THEN n ELSE counter[d][v]
           /\ count' = [count EXCEPT ![r] = n]
           /\ at' = [at EXCEPT ![r] = minute]
           /\ (n = 1 /\ Goto(r, "expire")) \/ (n # 1 /\ Decide(r, n))
           /\ UNCHANGED <<minute, expires, caller, window, raised>>
<1>1. caller[r] \in Callers /\ window[r] \in Windows /\ stage[r] = "incr"
  BY DEF Incr, AtItsStep, TypeOK
<1> DEFINE n == counter[caller[r]][window[r]] + 1
<1>2. n \in Nat /\ n > 0
  BY <1>1 DEF TypeOK
<1>3. counter' = [counter EXCEPT ![caller[r]][window[r]] = n]
  BY DEF Incr
<1>4. /\ count' = [count EXCEPT ![r] = n]
      /\ at' = [at EXCEPT ![r] = minute]
      /\ (n = 1 /\ Goto(r, "expire")) \/ (n # 1 /\ Decide(r, n))
      /\ UNCHANGED <<minute, expires, caller, window, raised>>
  BY DEF Incr, request
<1> HIDE DEF n
<1>5. \A d \in Callers, v \in Windows :
          counter'[d][v] = IF d = caller[r] /\ v = window[r] THEN n ELSE counter[d][v]
  BY <1>1, <1>2, <1>3, SetOne DEF TypeOK
<1> QED BY <1>1, <1>2, <1>4, <1>5 DEF n

\* Expire gives the counter, if it is there, to the next minute.
LEMMA ExpireMoves ==
    ASSUME TypeOK, AtItsStep, NEW r \in Requests, Expire(r)
    PROVE  /\ stage[r] = "expire" /\ count[r] = 1 /\ at[r] # None
           /\ caller[r] \in Callers /\ window[r] \in Windows
           /\ \A d \in Callers, v \in Windows :
                  expires'[d][v] = IF /\ d = caller[r] /\ v = window[r] /\ counter[d][v] # 0
                                   THEN minute + 1 ELSE expires[d][v]
           /\ Decide(r, 1)
           /\ UNCHANGED <<minute, counter, caller, window, at, count, raised>>
<1>1. /\ stage[r] = "expire" /\ count[r] = 1 /\ at[r] # None
      /\ caller[r] \in Callers /\ window[r] \in Windows
      /\ minute + 1 \in Nat \cup {None}
  BY DEF Expire, AtItsStep, TypeOK, Windows
<1>2. \/ counter[caller[r]][window[r]] = 0 /\ expires' = expires
      \/ /\ counter[caller[r]][window[r]] # 0
         /\ expires' = [expires EXCEPT ![caller[r]][window[r]] = minute + 1]
  BY DEF Expire
<1>3. \A d \in Callers, v \in Windows :
          expires'[d][v] = IF /\ d = caller[r] /\ v = window[r] /\ counter[d][v] # 0
                           THEN minute + 1 ELSE expires[d][v]
  BY <1>1, <1>2, SetOne DEF TypeOK
<1>4. /\ Decide(r, 1)
      /\ UNCHANGED <<minute, counter, caller, window, at, count, raised>>
  BY <1>1 DEF Expire, request
<1> QED BY <1>1, <1>3, <1>4

\* FailOpen may have taken effect and numbers nobody.
LEMMA FailOpenMoves ==
    ASSUME TypeOK, AtItsStep, NEW r \in Requests, FailOpen(r)
    PROVE  /\ stage[r] \in {"incr", "expire"}
           /\ caller[r] \in Callers /\ window[r] \in Windows /\ window[r] <= minute
           /\ \A d \in Callers, v \in Windows :
                  /\ counter'[d][v] >= counter[d][v]
                  /\ d # caller[r] \/ v # window[r] \/ stage[r] = "expire"
                       => counter'[d][v] = counter[d][v]
                  /\ counter'[d][v] <= counter[d][v] + 1
           /\ \A d \in Callers, v \in Windows :
                  \/ expires'[d][v] = expires[d][v]
                  \/ v = window[r] /\ expires'[d][v] = minute + 1
           /\ at' = (IF stage[r] = "incr" THEN [at EXCEPT ![r] = minute] ELSE at)
           /\ Goto(r, "app")
           /\ raised' = raised \cup {r}
           /\ UNCHANGED <<minute, caller, window, count>>
<1> DEFINE n == counter[caller[r]][window[r]] + 1
<1>1. /\ stage[r] \in {"incr", "expire"}
      /\ caller[r] \in Callers /\ window[r] \in Windows /\ window[r] <= minute
      /\ minute + 1 \in Nat \cup {None}
  BY DEF FailOpen, AtItsStep, TypeOK, Windows
<1>2. n \in Nat /\ \A d \in Callers, v \in Windows : counter[d][v] \in Nat
  BY <1>1 DEF TypeOK
<1>3. /\ \/ counter' = counter
         \/ stage[r] = "incr" /\ counter' = [counter EXCEPT ![caller[r]][window[r]] = n]
      /\ expires' = expires \/ expires' = [expires EXCEPT ![caller[r]][window[r]] = minute + 1]
  BY DEF FailOpen, redis
<1>4. /\ at' = (IF stage[r] = "incr" THEN [at EXCEPT ![r] = minute] ELSE at)
      /\ Goto(r, "app")
      /\ raised' = raised \cup {r}
      /\ UNCHANGED <<minute, caller, window, count>>
  BY DEF FailOpen, request
<1> HIDE DEF n
<1>5. stage[r] = "incr" /\ counter' = [counter EXCEPT ![caller[r]][window[r]] = n] =>
        \A d \in Callers, v \in Windows :
          counter'[d][v] = IF d = caller[r] /\ v = window[r] THEN n ELSE counter[d][v]
  BY <1>1, <1>2, SetOne DEF TypeOK
<1>6. \A d \in Callers, v \in Windows :
                  /\ counter'[d][v] >= counter[d][v]
                  /\ d # caller[r] \/ v # window[r] \/ stage[r] = "expire"
                       => counter'[d][v] = counter[d][v]
                  /\ counter'[d][v] <= counter[d][v] + 1
  <2>1. CASE counter' = counter
    BY <2>1, <1>2
  <2>2. CASE stage[r] = "incr" /\ counter' = [counter EXCEPT ![caller[r]][window[r]] = n]
    BY <2>2, <1>1, <1>2, <1>5 DEF n
  <2> QED BY <1>3, <2>1, <2>2
<1>7. expires' = [expires EXCEPT ![caller[r]][window[r]] = minute + 1] =>
        \A d \in Callers, v \in Windows :
          expires'[d][v] = IF d = caller[r] /\ v = window[r] THEN minute + 1 ELSE expires[d][v]
  BY <1>1, SetOne, expires \in [Callers -> [Windows -> Nat \cup {None}]] DEF TypeOK
<1>8. \A d \in Callers, v \in Windows :
          \/ expires'[d][v] = expires[d][v]
          \/ v = window[r] /\ expires'[d][v] = minute + 1
  BY <1>3, <1>7
<1> QED BY <1>1, <1>4, <1>6, <1>8

\* Evict ends a counter whose minute is over.
LEMMA EvictMoves ==
    ASSUME TypeOK, Outlives, NEW c \in Callers, NEW w \in Windows, Evict(c, w)
    PROVE  /\ w < minute
           /\ \A d \in Callers, v \in Windows :
                  /\ counter'[d][v] = IF d = c /\ v = w THEN 0 ELSE counter[d][v]
                  /\ expires'[d][v] = IF d = c /\ v = w THEN None ELSE expires[d][v]
           /\ UNCHANGED <<minute, caller, window, at, count, stage, response, raised>>
<1>1. w < minute
  BY DEF Evict, Outlives, TypeOK, Windows
<1>2. \A d \in Callers, v \in Windows :
          /\ counter'[d][v] = IF d = c /\ v = w THEN 0 ELSE counter[d][v]
          /\ expires'[d][v] = IF d = c /\ v = w THEN None ELSE expires[d][v]
  BY SetOne DEF Evict, TypeOK
<1> QED BY <1>1, <1>2 DEF Evict, request

-----------------------------------------------------------------------------
\* Where a request is, and what it has by then.
LEMMA AtItsStepKept == TypeOK /\ AtItsStep /\ Next => AtItsStep'
<1> SUFFICES ASSUME TypeOK, AtItsStep, Next PROVE AtItsStep'
  OBVIOUS
<1>a. minute \in Nat /\ \A r \in Requests : window[r] \in Nat /\ count[r] \in Nat
  BY DEF TypeOK, Windows
<1>1. ASSUME NEW r \in Requests, NEW k \in Kinds, Receive(r, k) PROVE AtItsStep'
  BY <1>1 DEF Receive, Kinds, AtItsStep, TypeOK, Answer, Goto, request
<1>2. ASSUME NEW r \in Requests, NEW c \in Callers, Identify(r, c) PROVE AtItsStep'
  BY <1>2, <1>a DEF Identify, AtItsStep, TypeOK, Answer, Goto, request
<1>3. ASSUME NEW r \in Requests, Incr(r) PROVE AtItsStep'
  <2> DEFINE n == counter[caller[r]][window[r]] + 1
  <2>1. /\ stage[r] = "incr" /\ caller[r] \in Callers /\ n \in Nat
        /\ count' = [count EXCEPT ![r] = n] /\ at' = [at EXCEPT ![r] = minute]
        /\ (n = 1 /\ Goto(r, "expire")) \/ (n # 1 /\ Decide(r, n))
        /\ UNCHANGED <<minute, expires, caller, window, raised>>
    BY <1>3, IncrMoves
  <2> HIDE DEF n
  <2>2. count'[r] = n /\ at'[r] = minute /\ minute # None
    BY <2>1, <1>a DEF TypeOK
  <2>3. \A q \in Requests \ {r} : count'[q] = count[q] /\ at'[q] = at[q]
    BY <2>1 DEF TypeOK
  <2>4. CASE n = 1 /\ Goto(r, "expire")
    BY <2>4, <2>1, <2>2, <2>3 DEF Goto, AtItsStep, TypeOK
  <2>5. CASE Decide(r, n)
    BY <2>5, <2>1, <2>2, <2>3, DecideMoves DEF AtItsStep
  <2> QED BY <2>1, <2>4, <2>5
<1>4. ASSUME NEW r \in Requests, Expire(r) PROVE AtItsStep'
  BY <1>4, ExpireMoves, DecideMoves DEF AtItsStep
<1>5. ASSUME NEW r \in Requests, FailOpen(r) PROVE AtItsStep'
  BY <1>5, FailOpenMoves DEF AtItsStep, TypeOK, Goto
<1>6. ASSUME NEW r \in Requests, Handle(r) PROVE AtItsStep'
  BY <1>6 DEF Handle, AtItsStep, TypeOK, Answer, request
<1>7. CASE Tick
  BY <1>7, <1>a DEF Tick, AtItsStep, request
<1>8. ASSUME NEW c \in Callers, NEW w \in Windows, Evict(c, w) PROVE AtItsStep'
  BY <1>8 DEF Evict, AtItsStep, request
<1> QED BY <1>1, <1>2, <1>3, <1>4, <1>5, <1>6, <1>7, <1>8 DEF Next

\* Only a number within the limit, or a Redis error, gets a request to the routes.
LEMMA LetThroughKept == TypeOK /\ AtItsStep /\ LetThrough /\ Next => LetThrough'
<1> SUFFICES ASSUME TypeOK, AtItsStep, LetThrough, Next PROVE LetThrough'
  OBVIOUS
<1>a. ASSUME NEW r \in Requests, raised \subseteq raised',
             \A q \in Requests \ {r} :
                 /\ stage'[q] = stage[q] /\ response'[q] = response[q]
                 /\ caller'[q] = caller[q] /\ count'[q] = count[q],
             r \notin raised' /\ caller'[r] # None /\ Passed(r)' => count'[r] \in 1 .. Limit
      PROVE  LetThrough'
  BY <1>a DEF LetThrough, Passed
<1>1. ASSUME NEW r \in Requests, NEW k \in Kinds, Receive(r, k) PROVE LetThrough'
  <2>1. caller'[r] = None
    BY <1>1 DEF Receive, AtItsStep, request
  <2> QED BY <2>1, <1>1, <1>a DEF Receive, Answer, Goto, TypeOK, request
<1>2. ASSUME NEW r \in Requests, NEW c \in Callers, Identify(r, c) PROVE LetThrough'
  <2>1. ~Passed(r)'
    BY <1>2 DEF Identify, Goto, Passed, AtItsStep, TypeOK
  <2> QED BY <2>1, <1>2, <1>a DEF Identify, Goto, TypeOK
<1>3. ASSUME NEW r \in Requests, Incr(r) PROVE LetThrough'
  <2> DEFINE n == counter[caller[r]][window[r]] + 1
  <2>1. /\ stage[r] = "incr" /\ n \in Nat /\ n > 0
        /\ count' = [count EXCEPT ![r] = n]
        /\ (n = 1 /\ Goto(r, "expire")) \/ (n # 1 /\ Decide(r, n))
        /\ UNCHANGED <<caller, raised>>
    BY <1>3, IncrMoves
  <2> HIDE DEF n
  <2>2. response[r] = None /\ count'[r] = n
    BY <2>1 DEF AtItsStep, TypeOK
  <2>3. Passed(r)' => n \in 1 .. Limit
    BY <2>1, <2>2, DecideMoves DEF Goto, Passed, TypeOK
  <2>4. \A q \in Requests \ {r} : stage'[q] = stage[q] /\ response'[q] = response[q]
    BY <2>1, DecideMoves DEF Goto, TypeOK
  <2> QED BY <2>1, <2>2, <2>3, <2>4, <1>a DEF TypeOK
<1>4. ASSUME NEW r \in Requests, Expire(r) PROVE LetThrough'
  <2>1. /\ stage[r] = "expire" /\ count[r] = 1 /\ Decide(r, 1)
        /\ UNCHANGED <<caller, count, raised>>
    BY <1>4, ExpireMoves
  <2>2. response[r] = None
    BY <2>1 DEF AtItsStep
  <2> QED BY <2>1, <2>2, DecideMoves, <1>a
<1>5. ASSUME NEW r \in Requests, FailOpen(r) PROVE LetThrough'
  <2>1. /\ Goto(r, "app") /\ raised' = raised \cup {r}
        /\ UNCHANGED <<caller, count>>
    BY <1>5, FailOpenMoves
  <2>2. \A q \in Requests \ {r} : stage'[q] = stage[q] /\ response'[q] = response[q]
    BY <2>1 DEF Goto, TypeOK
  <2> QED BY <2>1, <2>2, <1>a
<1>6. ASSUME NEW r \in Requests, Handle(r) PROVE LetThrough'
  <2>1. Passed(r) /\ UNCHANGED <<caller, count, raised>>
    BY <1>6 DEF Handle, Passed, request
  <2>2. \A q \in Requests \ {r} : stage'[q] = stage[q] /\ response'[q] = response[q]
    BY <1>6 DEF Handle, Answer, TypeOK
  <2>3. r \notin raised' /\ caller'[r] # None => count'[r] \in 1 .. Limit
    BY <2>1 DEF LetThrough
  <2> QED BY <2>1, <2>2, <2>3, <1>a
<1>7. ASSUME Tick \/ \E c \in Callers, w \in Windows : Evict(c, w) PROVE LetThrough'
  BY <1>7 DEF Tick, Evict, LetThrough, Passed, request
<1> QED BY <1>1, <1>2, <1>3, <1>4, <1>5, <1>6, <1>7 DEF Next

\* No counter goes within its minute, and the numbers of its minute differ.
LEMMA NumbersKept ==
    TypeOK /\ AtItsStep /\ Outlives /\ Counted /\ Distinct /\ Next
        => Outlives' /\ Counted' /\ Distinct'
<1> SUFFICES ASSUME TypeOK, AtItsStep, Outlives, Counted, Distinct, Next
             PROVE  Outlives' /\ Counted' /\ Distinct'
  OBVIOUS
<1>a. /\ minute \in Nat /\ minute \in Windows
      /\ \A r \in Requests : window[r] \in Windows /\ window[r] \in Nat /\ count[r] \in Nat
      /\ \A c \in Callers, w \in Windows : counter[c][w] \in Nat /\ w \in Nat
  BY DEF TypeOK, Windows
<1>b. \A r \in Requests : at[r] # None => caller[r] \in Callers
  BY DEF AtItsStep
<1> USE DEF Outlives, Counted, Distinct
<1>1. ASSUME NEW r \in Requests, NEW k \in Kinds, Receive(r, k)
      PROVE  Outlives' /\ Counted' /\ Distinct'
  BY <1>1 DEF Receive, redis, request
<1>2. ASSUME NEW r \in Requests, NEW c \in Callers, Identify(r, c)
      PROVE  Outlives' /\ Counted' /\ Distinct'
  <2>1. /\ at[r] = None /\ count[r] = 0 /\ caller' = [caller EXCEPT ![r] = c]
        /\ window' = [window EXCEPT ![r] = minute]
        /\ UNCHANGED <<minute, counter, expires, at, count>>
    BY <1>2 DEF Identify, redis, AtItsStep
  <2>2. \A q \in Requests \ {r} : caller'[q] = caller[q] /\ window'[q] = window[q]
    BY <2>1 DEF TypeOK
  <2>3. minute # None /\ \A q \in Requests : window'[q] # None
    BY <2>1, <1>a DEF TypeOK
  <2> QED BY <2>1, <2>2, <2>3
<1>3. ASSUME NEW r \in Requests, Incr(r) PROVE Outlives' /\ Counted' /\ Distinct'
  <2> DEFINE n == counter[caller[r]][window[r]] + 1
  <2>1. /\ stage[r] = "incr" /\ caller[r] \in Callers /\ window[r] \in Windows
        /\ n \in Nat /\ n > 0
        /\ \A d \in Callers, v \in Windows :
               counter'[d][v] = IF d = caller[r] /\ v = window[r] THEN n ELSE counter[d][v]
        /\ count' = [count EXCEPT ![r] = n] /\ at' = [at EXCEPT ![r] = minute]
        /\ UNCHANGED <<minute, expires, caller, window>>
    BY <1>3, IncrMoves
  <2>2. n > counter[caller[r]][window[r]]
    BY <2>1, <1>a
  <2> HIDE DEF n
  <2>3. count'[r] = n /\ at'[r] = minute /\ at[r] = None
    BY <2>1 DEF TypeOK, AtItsStep
  <2>4. \A q \in Requests \ {r} : count'[q] = count[q] /\ at'[q] = at[q]
    BY <2>1 DEF TypeOK
  <2>5. Counted'
    <3> SUFFICES ASSUME NEW q \in Requests, window[q] = minute, at'[q] = minute
                 PROVE  count'[q] <= counter'[caller[q]][minute]
      BY <2>1
    <3>1. CASE q = r
      BY <3>1, <2>1, <2>3
    <3>2. CASE q # r
      <4>1. at[q] = minute /\ caller[q] \in Callers /\ count[q] <= counter[caller[q]][minute]
        BY <3>2, <2>4, <1>a, <1>b
      <4>2. counter'[caller[q]][minute] >= counter[caller[q]][minute]
        BY <4>1, <2>1, <2>2, <1>a
      <4>3. count[q] \in Nat /\ counter[caller[q]][minute] \in Nat /\ counter'[caller[q]][minute] \in Nat
        BY <4>1, <1>a, <2>1
      <4> QED BY <3>2, <4>1, <4>2, <4>3, <2>4
    <3> QED BY <3>1, <3>2
  <2>6. Distinct'
    <3>1. \A q \in Requests \ {r} :
             /\ caller[q] = caller[r] /\ window[q] = window[r] /\ at[q] = window[q]
             /\ minute = window[r]
             => count[q] < n
      BY <2>1, <2>2, <1>a
    <3>2. \A q \in Requests \ {r} :
             /\ caller[q] = caller[r] /\ window[q] = window[r] /\ at'[q] = window[q]
             /\ minute = window[r]
             => count'[q] # count'[r]
      BY <3>1, <2>3, <2>4, <1>a, <2>1
    <3> QED BY <3>2, <2>1, <2>3, <2>4
  <2> QED BY <2>1, <2>5, <2>6
<1>4. ASSUME NEW r \in Requests, Expire(r) PROVE Outlives' /\ Counted' /\ Distinct'
  BY <1>4, ExpireMoves, <1>a DEF AtItsStep
<1>5. ASSUME NEW r \in Requests, FailOpen(r) PROVE Outlives' /\ Counted' /\ Distinct'
  <2>1. /\ stage[r] \in {"incr", "expire"}
        /\ caller[r] \in Callers /\ window[r] \in Windows /\ window[r] <= minute
        /\ \A d \in Callers, v \in Windows : counter'[d][v] >= counter[d][v]
        /\ \A d \in Callers, v \in Windows :
                  \/ expires'[d][v] = expires[d][v]
                  \/ v = window[r] /\ expires'[d][v] = minute + 1
        /\ at' = (IF stage[r] = "incr" THEN [at EXCEPT ![r] = minute] ELSE at)
        /\ UNCHANGED <<minute, caller, window, count>>
    BY <1>5, FailOpenMoves
  <2>2. Outlives'
    BY <2>1, <1>a
  <2>3. \/ at' = at
        \/ /\ count[r] = 0 /\ at'[r] = minute
           /\ \A q \in Requests \ {r} : at'[q] = at[q]
    BY <2>1 DEF AtItsStep, TypeOK
  <2>4. \A c \in Callers : counter'[c][minute] >= counter[c][minute] /\ counter'[c][minute] \in Nat
    BY <2>1, <1>5, FailOpenMoves, Types, <1>a DEF TypeOK
  <2>5. Counted'
    BY <2>1, <2>3, <2>4, <1>a, <1>b
  <2>6. Distinct'
    BY <2>1, <2>3, <1>a
  <2> QED BY <2>2, <2>5, <2>6
<1>6. ASSUME NEW r \in Requests, Handle(r) PROVE Outlives' /\ Counted' /\ Distinct'
  BY <1>6 DEF Handle, redis, request
<1>7. ASSUME Tick PROVE Outlives' /\ Counted' /\ Distinct'
  <2>1. minute' = minute + 1 /\ UNCHANGED <<counter, expires, caller, window, at, count>>
    BY <1>7 DEF Tick, redis, request
  <2>2. \A r \in Requests : window'[r] # minute'
    BY <2>1, <1>a DEF AtItsStep
  <2>3. Outlives' /\ Distinct'
    BY <2>1
  <2>4. Counted'
    BY <2>2
  <2> QED BY <2>3, <2>4
<1>8. ASSUME NEW c \in Callers, NEW w \in Windows, Evict(c, w)
      PROVE  Outlives' /\ Counted' /\ Distinct'
  BY <1>8, EvictMoves, <1>a, <1>b
<1> HIDE DEF Outlives, Counted, Distinct
<1> QED BY <1>1, <1>2, <1>3, <1>4, <1>5, <1>6, <1>7, <1>8 DEF Next

-----------------------------------------------------------------------------
\* A counter never runs ahead of the requests that reached it.
LEMMA NotAheadKept == TypeOK /\ AtItsStep /\ Outlives /\ NotAhead /\ Next => NotAhead'
<1> SUFFICES ASSUME TypeOK, AtItsStep, Outlives, NotAhead, Next,
                    NEW c \in Callers, NEW w \in Windows
             PROVE  /\ counter'[c][w] <= Cardinality(Asked(c, w)')
                    /\ \A r \in Requests : caller'[r] = c /\ window'[r] = w =>
                           count'[r] <= Cardinality(Asked(c, w)')
  BY DEF NotAhead
<1> DEFINE S == Asked(c, w)
           T == Asked(c, w)'
           Bounded == /\ counter'[c][w] <= Cardinality(T)
                      /\ \A q \in Requests : caller'[q] = c /\ window'[q] = w =>
                             count'[q] <= Cardinality(T)
<1>a. S \in SUBSET Requests /\ T \in SUBSET Requests
  BY DEF Asked
<1>b. /\ Cardinality(S) \in Nat /\ counter[c][w] \in Nat
      /\ \A q \in Requests : count[q] \in Nat
      /\ minute # None /\ minute \in Nat
  BY <1>a, FS_Subset, FS_CardinalityType DEF TypeOK, Windows
<1>c. /\ counter[c][w] <= Cardinality(S)
      /\ \A q \in Requests : caller[q] = c /\ window[q] = w => count[q] <= Cardinality(S)
  BY DEF NotAhead
<1>d. ASSUME NEW r \in Requests, at[r] = None, at'[r] = minute,
             UNCHANGED <<caller, window>>, \A q \in Requests \ {r} : at'[q] = at[q]
      PROVE  IF caller[r] = c /\ window[r] = w THEN Cardinality(T) = Cardinality(S) + 1 ELSE T = S
  <2>1. CASE caller[r] = c /\ window[r] = w
    <3>1. r \notin S /\ T = S \cup {r}
      BY <1>b, <1>d, <2>1 DEF Asked
    <3>2. Cardinality(T) = Cardinality(S) + 1
      BY <1>a, <3>1, AskedGrows
    <3> QED BY <2>1, <3>2
  <2>2. CASE ~(caller[r] = c /\ window[r] = w)
    <3>1. T = S
      BY <1>d, <2>2 DEF Asked
    <3> QED BY <2>2, <3>1
  <2> QED BY <2>1, <2>2
<1>e. ASSUME UNCHANGED <<caller, window, at>> PROVE T = S
  BY <1>e DEF Asked
<1>1. ASSUME NEW r \in Requests, NEW k \in Kinds, Receive(r, k) PROVE Bounded
  <2>1. T = S /\ UNCHANGED <<counter, caller, window, count>>
    BY <1>1, <1>e DEF Receive, redis, request
  <2> QED BY <2>1, <1>c
<1>2. ASSUME NEW r \in Requests, NEW d \in Callers, Identify(r, d) PROVE Bounded
  <2>1. /\ at[r] = None /\ count[r] = 0
        /\ \A q \in Requests \ {r} : caller'[q] = caller[q] /\ window'[q] = window[q]
        /\ UNCHANGED <<counter, at, count>>
    BY <1>2 DEF Identify, redis, AtItsStep, TypeOK
  <2>2. T = S
    BY <2>1 DEF Asked
  <2> HIDE DEF S, T
  <2> QED BY <2>1, <2>2, <1>b, <1>c
<1>3. ASSUME NEW r \in Requests, Incr(r) PROVE Bounded
  <2> DEFINE n == counter[caller[r]][window[r]] + 1
  <2>1. /\ stage[r] = "incr"
        /\ counter'[c][w] = IF c = caller[r] /\ w = window[r] THEN n ELSE counter[c][w]
        /\ count' = [count EXCEPT ![r] = n] /\ at' = [at EXCEPT ![r] = minute]
        /\ UNCHANGED <<caller, window>>
    BY <1>3, IncrMoves
  <2>2. /\ count'[r] = n /\ at'[r] = minute /\ at[r] = None
        /\ \A q \in Requests \ {r} : count'[q] = count[q] /\ at'[q] = at[q]
    BY <2>1 DEF TypeOK, AtItsStep
  <2>3. IF caller[r] = c /\ window[r] = w THEN Cardinality(T) = Cardinality(S) + 1 ELSE T = S
    BY <2>1, <2>2, <1>d
  <2>4. CASE caller[r] = c /\ window[r] = w
    <3>1. n = counter[c][w] + 1 /\ counter'[c][w] = n /\ Cardinality(T) = Cardinality(S) + 1
      BY <2>1, <2>3, <2>4
    <3> HIDE DEF S, T, n
    <3> QED BY <3>1, <2>1, <2>2, <1>b, <1>c
  <2>5. CASE ~(caller[r] = c /\ window[r] = w)
    <3> HIDE DEF S, T, n
    <3> QED BY <2>1, <2>2, <2>3, <2>5, <1>c
  <2> QED BY <2>4, <2>5
<1>4. ASSUME NEW r \in Requests, Expire(r) PROVE Bounded
  <2>1. T = S /\ UNCHANGED <<counter, caller, window, count>>
    BY <1>4, <1>e, ExpireMoves
  <2> QED BY <2>1, <1>c
<1>5. ASSUME NEW r \in Requests, FailOpen(r) PROVE Bounded
  <2>1. /\ stage[r] \in {"incr", "expire"}
        /\ c # caller[r] \/ w # window[r] \/ stage[r] = "expire"
             => counter'[c][w] = counter[c][w]
        /\ counter'[c][w] <= counter[c][w] + 1
        /\ at' = (IF stage[r] = "incr" THEN [at EXCEPT ![r] = minute] ELSE at)
        /\ UNCHANGED <<caller, window, count>>
    BY <1>5, FailOpenMoves
  <2>2. counter'[c][w] \in Nat
    BY Types DEF TypeOK
  <2>3. CASE stage[r] = "expire"
    <3>1. T = S /\ counter'[c][w] = counter[c][w]
      BY <2>1, <2>3, <1>e
    <3> QED BY <2>1, <3>1, <1>c
  <2>4. CASE stage[r] = "incr"
    <3>1. /\ at[r] = None /\ at'[r] = minute
          /\ \A q \in Requests \ {r} : at'[q] = at[q]
      BY <2>1, <2>4 DEF TypeOK, AtItsStep
    <3>2. IF caller[r] = c /\ window[r] = w THEN Cardinality(T) = Cardinality(S) + 1 ELSE T = S
      BY <2>1, <3>1, <1>d
    <3> HIDE DEF S, T
    <3> QED BY <2>1, <2>2, <3>2, <1>b, <1>c
  <2> QED BY <2>1, <2>3, <2>4
<1>6. ASSUME NEW r \in Requests, Handle(r) PROVE Bounded
  <2>1. T = S /\ UNCHANGED <<counter, caller, window, count>>
    BY <1>6, <1>e DEF Handle, redis, request
  <2> QED BY <2>1, <1>c
<1>7. ASSUME Tick PROVE Bounded
  <2>1. T = S /\ UNCHANGED <<counter, caller, window, count>>
    BY <1>7, <1>e DEF Tick, redis, request
  <2> QED BY <2>1, <1>c
<1>8. ASSUME NEW d \in Callers, NEW v \in Windows, Evict(d, v) PROVE Bounded
  <2>1. /\ T = S /\ UNCHANGED <<caller, window, count>>
        /\ counter'[c][w] = 0 \/ counter'[c][w] = counter[c][w]
    BY <1>8, <1>e, EvictMoves
  <2> HIDE DEF S, T
  <2> QED BY <2>1, <1>b, <1>c
<1> QED BY <1>1, <1>2, <1>3, <1>4, <1>5, <1>6, <1>7, <1>8 DEF Next

\* A counter without a time to live has a cause.
LEMMA LeaksKept == TypeOK /\ AtItsStep /\ Outlives /\ LeaksHaveACause /\ Next => LeaksHaveACause'
<1> SUFFICES ASSUME TypeOK, AtItsStep, Outlives, LeaksHaveACause, Next
             PROVE  LeaksHaveACause'
  OBVIOUS
<1>a. /\ minute \in Nat /\ minute + 1 # None
      /\ \A c \in Callers, w \in Windows : counter[c][w] \in Nat
  BY DEF TypeOK, Windows
<1> USE DEF LeaksHaveACause
<1>1. ASSUME NEW r \in Requests, NEW k \in Kinds, Receive(r, k) PROVE LeaksHaveACause'
  BY <1>1 DEF Receive, redis, request, Answer, Goto, TypeOK
<1>2. ASSUME NEW r \in Requests, NEW c \in Callers, Identify(r, c) PROVE LeaksHaveACause'
  <2>1. /\ stage[r] = "new" /\ caller[r] \notin Callers
        /\ UNCHANGED <<counter, expires, raised>>
        /\ \A q \in Requests \ {r} :
               stage'[q] = stage[q] /\ caller'[q] = caller[q] /\ window'[q] = window[q]
    BY <1>2 DEF Identify, redis, Goto, TypeOK, AtItsStep
  <2> QED BY <2>1
<1>3. ASSUME NEW r \in Requests, Incr(r) PROVE LeaksHaveACause'
  <2> DEFINE n == counter[caller[r]][window[r]] + 1
  <2>1. /\ stage[r] = "incr" /\ n \in Nat /\ n > 0
        /\ caller[r] \in Callers /\ window[r] \in Windows
        /\ \A d \in Callers, v \in Windows :
               counter'[d][v] = IF d = caller[r] /\ v = window[r] THEN n ELSE counter[d][v]
        /\ (n = 1 /\ Goto(r, "expire")) \/ (n # 1 /\ Decide(r, n))
        /\ UNCHANGED <<expires, caller, window, raised>>
    BY <1>3, IncrMoves
  <2>2. n = counter[caller[r]][window[r]] + 1
    OBVIOUS
  <2> HIDE DEF n
  <2>3. \A q \in Requests \ {r} : stage'[q] = stage[q]
    BY <2>1, DecideMoves DEF Goto, TypeOK
  <2>4. n = 1 => stage'[r] = "expire"
    BY <2>1 DEF Goto, TypeOK
  <2> QED BY <2>1, <2>2, <2>3, <2>4, <1>a
<1>4. ASSUME NEW r \in Requests, Expire(r) PROVE LeaksHaveACause'
  <2>1. \A q \in Requests \ {r} : stage'[q] = stage[q]
    BY <1>4, ExpireMoves, DecideMoves
  <2> QED BY <1>4, <2>1, <1>a, ExpireMoves
<1>5. ASSUME NEW r \in Requests, FailOpen(r) PROVE LeaksHaveACause'
  <2>1. /\ stage[r] \in {"incr", "expire"}
        /\ \A d \in Callers, v \in Windows :
               d # caller[r] \/ v # window[r] \/ stage[r] = "expire"
                   => counter'[d][v] = counter[d][v]
        /\ \A d \in Callers, v \in Windows :
               expires'[d][v] = expires[d][v] \/ expires'[d][v] = minute + 1
        /\ raised' = raised \cup {r}
        /\ UNCHANGED <<caller, window>>
    BY <1>5, FailOpenMoves
  <2>2. \A q \in Requests \ {r} : stage'[q] = stage[q]
    BY <1>5, FailOpenMoves DEF Goto, TypeOK
  <2> SUFFICES ASSUME NEW c \in Callers, NEW w \in Windows,
                      counter'[c][w] > 0, expires'[c][w] = None
               PROVE  \E q \in Requests : /\ caller'[q] = c /\ window'[q] = w
                                          /\ stage'[q] = "expire" \/ q \in raised'
    OBVIOUS
  <2>3. CASE caller[r] = c /\ window[r] = w
    BY <2>1, <2>3
  <2>4. CASE caller[r] # c \/ window[r] # w
    <3>1. counter[c][w] > 0 /\ expires[c][w] = None
      BY <2>1, <2>4, <1>a
    <3>2. PICK q \in Requests : /\ caller[q] = c /\ window[q] = w
                                /\ stage[q] = "expire" \/ q \in raised
      BY <3>1
    <3> QED BY <2>1, <2>2, <2>4, <3>2
  <2> QED BY <2>3, <2>4
<1>6. ASSUME NEW r \in Requests, Handle(r) PROVE LeaksHaveACause'
  <2>1. /\ stage[r] = "app" /\ UNCHANGED <<counter, expires, caller, window, raised>>
        /\ \A q \in Requests \ {r} : stage'[q] = stage[q]
    BY <1>6 DEF Handle, redis, request, Answer, TypeOK
  <2> QED BY <2>1
<1>7. ASSUME Tick PROVE LeaksHaveACause'
  BY <1>7 DEF Tick, redis, request
<1>8. ASSUME NEW c \in Callers, NEW w \in Windows, Evict(c, w) PROVE LeaksHaveACause'
  BY <1>8, EvictMoves
<1> QED BY <1>1, <1>2, <1>3, <1>4, <1>5, <1>6, <1>7, <1>8 DEF Next

\* Only an exception of the route is answered outside of the stack.
LEMMA LastResortKept == TypeOK /\ AtItsStep /\ LastResort /\ Next => LastResort'
<1> SUFFICES ASSUME TypeOK, AtItsStep, LastResort, Next PROVE LastResort'
  OBVIOUS
<1> DEFINE Answered(r, by, what) ==
               response' = response \/ response' = [response EXCEPT ![r] = [by |-> by, what |-> what]]
<1>a. ASSUME NEW r \in Requests, NEW by, NEW what, Answered(r, by, what),
             by = "server" => what = "unexpected"
      PROVE  LastResort'
  BY <1>a DEF LastResort, TypeOK
<1>1. ASSUME NEW r \in Requests, NEW k \in Kinds, Receive(r, k) PROVE LastResort'
  <2>1. \E what : Answered(r, k, what)
    BY <1>1 DEF Receive, Answer, Goto
  <2> HIDE DEF Answered
  <2> QED BY <2>1, <1>a DEF Kinds
<1>2. ASSUME NEW r \in Requests, NEW c \in Callers, Identify(r, c) PROVE LastResort'
  BY <1>2 DEF Identify, Goto, LastResort
<1>3. ASSUME NEW r \in Requests, Incr(r) \/ Expire(r) \/ FailOpen(r) PROVE LastResort'
  <2>1. Answered(r, "limit", "refused")
    BY <1>3 DEF Incr, Expire, FailOpen, Decide, Answer, Goto
  <2> HIDE DEF Answered
  <2> QED BY <2>1, <1>a
<1>4. ASSUME NEW r \in Requests, Handle(r) PROVE LastResort'
  <2>1. \E o \in Outcomes : Answered(r, IF o = "unexpected" THEN "server" ELSE "app", o)
    BY <1>4 DEF Handle, Answer
  <2> HIDE DEF Answered
  <2> QED BY <2>1, <1>a
<1>5. ASSUME Tick \/ \E c \in Callers, w \in Windows : Evict(c, w) PROVE LastResort'
  BY <1>5 DEF Tick, Evict, LastResort
<1> QED BY <1>1, <1>2, <1>3, <1>4, <1>5 DEF Next

-----------------------------------------------------------------------------
\* The inductive invariant holds in every state, whatever the constants are.
THEOREM PipelineInvariance == Spec => []PipelineInv
<1>1. PipelineInv /\ [Next]_vars => PipelineInv'
  <2> SUFFICES ASSUME PipelineInv, [Next]_vars PROVE PipelineInv'
    OBVIOUS
  <2>1. CASE Next
    BY <2>1, Types, AtItsStepKept, LetThroughKept, NumbersKept, NotAheadKept, LeaksKept, LastResortKept
       DEF PipelineInv
  <2>2. CASE UNCHANGED vars
    BY <2>2 DEF vars, redis, request, PipelineInv, TypeOK, AtItsStep, LetThrough, Passed,
                Outlives, Counted, Distinct, NotAhead, Asked, LeaksHaveACause, LastResort
  <2> QED BY <2>1, <2>2
<1> QED BY <1>1, InitPipeline, PTL DEF Spec

\* Every variable keeps its type.
THEOREM TypeCorrect == Spec => []TypeOK
<1>1. PipelineInv => TypeOK
  BY DEF PipelineInv
<1> QED BY <1>1, PipelineInvariance, PTL

\* At most Limit requests of a caller reach the routes in a minute, however many are
\* between INCR and EXPIRE, but for those whose Redis call raised or whose INCR came
\* after their minute (RateLimitMiddleware.dispatch).
THEOREM LimitHolds == Spec => []AdmittedWithinLimit
<1>1. PipelineInv => AdmittedWithinLimit
  <2> SUFFICES ASSUME PipelineInv, NEW c \in Callers, NEW w \in Windows
               PROVE  Cardinality(Admitted(c, w)) <= Limit
    BY DEF AdmittedWithinLimit
  <2> DEFINE f == [r \in Admitted(c, w) |-> count[r]]
  <2>0. c # None
    BY PipelineAssumption
  <2>1. f \in [Admitted(c, w) -> 1 .. Limit]
    BY <2>0 DEF Admitted, PipelineInv, LetThrough
  <2>2. \A r, q \in Admitted(c, w) : f[r] = f[q] => r = q
    BY <2>1 DEF Admitted, PipelineInv, Distinct
  <2>3. f \in Injection(Admitted(c, w), 1 .. Limit)
    BY <2>1, <2>2 DEF Injection, IsInjective
  <2>4. IsFiniteSet(1 .. Limit) /\ Cardinality(1 .. Limit) <= Limit
    BY FS_Interval
  <2>5. Cardinality(Admitted(c, w)) <= Cardinality(1 .. Limit)
    BY <2>3, <2>4, FS_Injection
  <2>6. /\ Cardinality(1 .. Limit) \in Nat
        /\ Cardinality(Admitted(c, w)) \in Nat
    BY <2>4, FS_CardinalityType, FS_Subset DEF Admitted
  <2> QED BY <2>4, <2>5, <2>6
<1> QED BY <1>1, PipelineInvariance, PTL

\* A 429 has more than Limit requests of its caller and minute behind it: the limiter
\* refuses nobody because of Redis or of others (RateLimitMiddleware.dispatch).
THEOREM RefusalsAreDeserved == Spec => []RefusedOverLimit
<1>1. PipelineInv => RefusedOverLimit
  <2> SUFFICES ASSUME PipelineInv, NEW r \in Requests, response[r] # None,
                      response[r].by = "limit"
               PROVE  Cardinality(Asked(caller[r], window[r])) > Limit
    BY DEF RefusedOverLimit
  <2>1. count[r] > Limit /\ caller[r] \in Callers /\ window[r] \in Windows /\ count[r] \in Nat
    BY DEF PipelineInv, AtItsStep, TypeOK
  <2>2. count[r] <= Cardinality(Asked(caller[r], window[r]))
    BY <2>1 DEF PipelineInv, NotAhead
  <2>3. Cardinality(Asked(caller[r], window[r])) \in Nat
    BY FS_CardinalityType, FS_Subset DEF Asked
  <2> QED BY <2>1, <2>2, <2>3
<1> QED BY <1>1, PipelineInvariance, PTL

\* A counter without a time to live has a request of its own behind it, still between
\* the two Redis calls or with one that raised (RateLimitMiddleware.dispatch).
THEOREM LeaksExplained == Spec => []LeaksHaveACause
<1>1. PipelineInv => LeaksHaveACause
  BY DEF PipelineInv
<1> QED BY <1>1, PipelineInvariance, PTL

Outer == {"security", "https", "hosts", "server"}
Every == {"app", "limit", "cors", "context"} \cup Outer

\* The four layers that are always there, and optional ones outside of them.
FixedInside(s) ==
    /\ s \in Seq(Every) /\ Len(s) >= 4
    /\ s[1] = "app" /\ s[2] = "limit" /\ s[3] = "cors" /\ s[4] = "context"
    /\ \A i \in 5 .. Len(s) : s[i] \in Outer

\* Adding a layer outside leaves the inner ones where they are.
LEMMA AddOutside ==
    ASSUME NEW s, FixedInside(s), NEW l \in Outer, NEW t, t = <<l>> \/ t = << >>
    PROVE  FixedInside(s \o t)
<1>1. CASE t = << >>
  <2>1. s \o t = s
    BY <1>1 DEF FixedInside
  <2> QED BY <2>1
<1>2. CASE t = <<l>>
  <2>1. l \in Every /\ s \in Seq(Every)
    BY DEF Every, FixedInside
  <2>2. s \o t = Append(s, l) /\ Append(s, l) \in Seq(Every)
    BY <1>2, <2>1
  <2>3. /\ Len(Append(s, l)) = Len(s) + 1
        /\ \A i \in 1 .. Len(s) : Append(s, l)[i] = s[i]
        /\ Append(s, l)[Len(s) + 1] = l
    BY <2>1
  <2> QED BY <2>1, <2>2, <2>3 DEF FixedInside
<1> QED BY <1>1, <1>2

LEMMA StackHasFixedInside == FixedInside(Stack)
<1> DEFINE inner == <<"app", "limit", "cors", "context">>
<1>1. FixedInside(inner)
  <2>1. inner \in Seq(Every)
    BY DEF Every
  <2> QED BY <2>1 DEF FixedInside
<1>2. \A l : Layer(l) = <<l>> \/ Layer(l) = << >>
  BY DEF Layer
<1> HIDE DEF inner
<1>3. FixedInside(inner \o Layer("security"))
  BY <1>1, <1>2, AddOutside DEF Outer
<1>4. FixedInside(inner \o Layer("security") \o Layer("https"))
  BY <1>2, <1>3, AddOutside DEF Outer
<1>5. FixedInside(inner \o Layer("security") \o Layer("https") \o Layer("hosts"))
  BY <1>2, <1>4, AddOutside DEF Outer
<1>6. FixedInside(inner \o Layer("security") \o Layer("https") \o Layer("hosts") \o <<"server">>)
  BY <1>5, AddOutside DEF Outer
<1> QED BY <1>6 DEF Stack, inner

\* Whichever optional layers are on: inside CORS there are the routes and the limit only,
\* and what a layer inside another one answers passes through it.
LEMMA InnerResponses ==
    ASSUME NEW by \in {"app", "limit"}
    PROVE  {"cors", "context"} \subseteq Headers(by)
<1>1. /\ Len(Stack) \in Nat /\ Len(Stack) >= 4
      /\ Stack[1] = "app" /\ Stack[2] = "limit" /\ Stack[3] = "cors" /\ Stack[4] = "context"
      /\ \A i \in 5 .. Len(Stack) : Stack[i] \in Outer
  BY StackHasFixedInside DEF FixedInside
<1> DEFINE place == CHOOSE i \in 1 .. Len(Stack) : Stack[i] = by
<1>2. Headers(by) = ({Stack[i] : i \in place + 1 .. Len(Stack)} \cap {"context", "cors", "security"})
                        \cup ({by} \cap {"cors"})
  BY DEF Headers
<1>3. place \in {1, 2}
  <2>1. \E i \in 1 .. Len(Stack) : Stack[i] = by
    BY <1>1
  <2>2. place \in 1 .. Len(Stack) /\ Stack[place] = by
    BY <2>1
  <2> HIDE DEF place
  <2>3. place \notin 5 .. Len(Stack)
    BY <1>1, <2>2 DEF Outer
  <2> QED BY <1>1, <2>2, <2>3
<1> HIDE DEF place
<1>4. 3 \in place + 1 .. Len(Stack) /\ 4 \in place + 1 .. Len(Stack)
  BY <1>1, <1>3
<1> QED BY <1>1, <1>2, <1>4

\* Whoever answers with the error envelope, but for the handler of last resort, answers
\* inside of CORS and of the request id (create_app's order of add_middleware).
THEOREM ErrorsReachTheBrowser == Spec => []ErrorsAreReadable
<1>1. PipelineInv => ErrorsAreReadable
  <2> SUFFICES ASSUME PipelineInv, NEW r \in Requests, response[r] # None,
                      Enveloped(response[r]), response[r].what # "unexpected"
               PROVE  {"cors", "context"} \subseteq Headers(response[r].by)
    BY DEF ErrorsAreReadable
  <2>1. response[r].by \in {"app", "limit"}
    BY DEF PipelineInv, LastResort, Enveloped
  <2> QED BY <2>1, InnerResponses
<1> QED BY <1>1, PipelineInvariance, PTL
=============================================================================
