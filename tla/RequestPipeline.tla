---------------------------- MODULE RequestPipeline ----------------------------
(***************************************************************************)
(* What every HTTP request passes through: the middleware stack built by   *)
(* create_app, the fixed-window rate limit with its counters in Redis, the *)
(* mapping of exceptions to responses, and the probes that are exempt.     *)
(*                                                                         *)
(* A response gets the headers of the layers outside the one that makes    *)
(* it.  An exception no handler is registered for is answered by           *)
(* Starlette's ServerErrorMiddleware, outside of all of them.              *)
(*                                                                         *)
(* Granularity: one action per Redis call, and one for the rest of a       *)
(* request.  Time is the minute that names the window of a counter; EXPIRE *)
(* 60 in one minute lets the key go at some moment of the next.            *)
(***************************************************************************)
EXTENDS Naturals, FiniteSets, Sequences

CONSTANTS
    Requests, Callers,
    None,
    Limit,       \* settings.rate_limit_per_minute
    MaxMinute,   \* bound on time
    MaxFailures  \* bound on Redis calls that raise

ASSUME PipelineAssumption ==
    /\ Limit \in Nat /\ MaxMinute \in Nat /\ MaxFailures \in Nat
    /\ None \notin Nat /\ None \notin Callers
    /\ IsFiniteSet(Requests)

VARIABLES
    optional,   \* layers the settings switch on
    minute,     \* int(time.time()) // 60
    counter,    \* value of ratelimit:{caller}:{window}; 0 without the key
    expires,    \* the minute from which the key may be gone, None without a TTL
    caller,     \* whom a request is counted for, None when it is not
    window,     \* the minute it reached the rate limit
    at,         \* the minute of its INCR
    count,      \* what INCR returned
    stage,      \* where a request is
    response,   \* who answered it, and with what
    raised      \* requests whose count failed (at most MaxFailures)

redis   == <<counter, expires>>
request == <<caller, window>>
vars    == <<optional, minute, redis, request, at, count, stage, response, raised>>

Windows == 0 .. MaxMinute
\* Requests that are not counted: probes, and those the named layer answers.
Kinds == {"probe", "cors", "https", "hosts"}
\* error: AppError, RequestValidationError and HTTPException have handlers of their own.
Outcomes == {"ok", "error", "unexpected"}
Layers == {"limit", "cors", "context", "security", "https", "hosts"}
Response == [by : Layers \cup {"app", "server"}, what : Outcomes \cup {"refused"}]

Init ==
    /\ optional \in SUBSET {"security", "https", "hosts"}
    /\ minute = 0
    /\ counter = [c \in Callers |-> [w \in Windows |-> 0]]
    /\ expires = [c \in Callers |-> [w \in Windows |-> None]]
    /\ caller = [r \in Requests |-> None]
    /\ window = [r \in Requests |-> 0]
    /\ at = [r \in Requests |-> None]
    /\ count = [r \in Requests |-> 0]
    /\ stage = [r \in Requests |-> "new"]
    /\ response = [r \in Requests |-> None]
    /\ raised = {}

-----------------------------------------------------------------------------
(* The stack, inner to outer, and the headers a response leaves it with.   *)

\* A layer is there when its setting is on.
Layer(l) == IF l \in optional THEN <<l>> ELSE <<>>

\* Fault: the rate limit is added last, outside of the others.
StackLimitOutside ==
    <<"app", "cors", "context">> \o Layer("security") \o Layer("https") \o Layer("hosts")
        \o <<"limit", "server">>

Stack ==
    <<"app", "limit", "cors", "context">> \o Layer("security") \o Layer("https") \o Layer("hosts")
        \o <<"server">>

\* CORS decorates its own answers too; the other layers only what passes them.
Headers(by) ==
    LET place == CHOOSE i \in 1 .. Len(Stack) : Stack[i] = by
        Outside == {Stack[i] : i \in place + 1 .. Len(Stack)}
    IN (Outside \cap {"context", "cors", "security"}) \cup ({by} \cap {"cors"})

\* The exceptions rendered as the one JSON envelope, and the 429 of the rate limit.
Enveloped(x) == x.by \in {"app", "limit", "server"} /\ x.what # "ok"

-----------------------------------------------------------------------------
(* A request and its steps.                                                *)

Answer(r, by, what) ==
    /\ stage' = [stage EXCEPT ![r] = "done"]
    /\ response' = [response EXCEPT ![r] = [by |-> by, what |-> what]]

Goto(r, s) == stage' = [stage EXCEPT ![r] = s] /\ UNCHANGED response

\* The layers outside the rate limit: bad hosts, plain HTTP and CORS preflights are
\* answered there when the layer is on; probes are not counted.
Receive(r, k) ==
    /\ stage[r] = "new"
    /\ IF k \in {"cors"} \cup (optional \cap {"https", "hosts"})
       THEN Answer(r, k, IF k = "hosts" THEN "refused" ELSE "ok")
       ELSE k = "probe" /\ Goto(r, "app")
    /\ UNCHANGED <<optional, minute, redis, request, at, count, raised>>

\* dispatch names the counter after the caller and the minute.
Identify(r, c) ==
    /\ stage[r] = "new"
    /\ caller' = [caller EXCEPT ![r] = c]
    /\ window' = [window EXCEPT ![r] = minute]
    /\ Goto(r, "incr")
    /\ UNCHANGED <<optional, minute, redis, at, count, raised>>

\* Fault: one more than the limit gets through.
DecideLate(r, n) == IF n > Limit + 1 THEN Answer(r, "limit", "refused") ELSE Goto(r, "app")

\* Over the limit the layer answers 429 itself.
Decide(r, n) == IF n > Limit THEN Answer(r, "limit", "refused") ELSE Goto(r, "app")

\* INCR creates the key, without a time to live, or adds one to it.
Incr(r) ==
    /\ stage[r] = "incr"
    /\ LET n == counter[caller[r]][window[r]] + 1
       IN /\ counter' = [counter EXCEPT ![caller[r]][window[r]] = n]
          /\ count' = [count EXCEPT ![r] = n]
          /\ IF n = 1 THEN Goto(r, "expire") ELSE Decide(r, n)
    /\ at' = [at EXCEPT ![r] = minute]
    /\ UNCHANGED <<optional, minute, expires, request, raised>>

\* Fault: the key is left to Redis.
ExpireForgotten(r) ==
    /\ stage[r] = "expire"
    /\ Decide(r, count[r])
    /\ UNCHANGED <<optional, minute, counter, expires, request, at, count, raised>>

\* EXPIRE does nothing to a key that does not exist.
Expire(r) ==
    /\ stage[r] = "expire"
    /\ expires' = IF counter[caller[r]][window[r]] = 0 THEN expires
                  ELSE [expires EXCEPT ![caller[r]][window[r]] = minute + 1]
    /\ Decide(r, count[r])
    /\ UNCHANGED <<optional, minute, counter, request, at, count, raised>>

\* Fault: the limiter refuses what it cannot count.
FailClosed(r) ==
    /\ stage[r] \in {"incr", "expire"} /\ Cardinality(raised) < MaxFailures
    /\ raised' = raised \cup {r}
    /\ Answer(r, "limit", "refused")
    /\ UNCHANGED <<optional, minute, redis, request, at, count>>

\* A Redis call raises, with or without having taken effect: the request goes on.
FailOpen(r) ==
    /\ stage[r] \in {"incr", "expire"} /\ Cardinality(raised) < MaxFailures
    /\ raised' = raised \cup {r}
    /\ \/ UNCHANGED redis
       \/ /\ stage[r] = "incr"
          /\ counter' = [counter EXCEPT ![caller[r]][window[r]] = @ + 1]
          /\ UNCHANGED expires
       \/ /\ stage[r] = "expire" /\ counter[caller[r]][window[r]] # 0
          /\ expires' = [expires EXCEPT ![caller[r]][window[r]] = minute + 1]
          /\ UNCHANGED counter
    /\ at' = IF stage[r] = "incr" THEN [at EXCEPT ![r] = minute] ELSE at
    /\ Goto(r, "app")
    /\ UNCHANGED <<optional, minute, request, count>>

\* The route answers or raises.  A probe that finds a dependency down answers 503
\* itself; the exceptions of register_exception_handlers are answered inside the
\* stack, but for the one of last resort.
Handle(r) ==
    /\ stage[r] = "app"
    /\ \E o \in Outcomes : Answer(r, IF o = "unexpected" THEN "server" ELSE "app", o)
    /\ UNCHANGED <<optional, minute, redis, request, at, count, raised>>

Tick ==
    /\ minute < MaxMinute
    /\ minute' = minute + 1
    /\ UNCHANGED <<optional, redis, request, at, count, stage, response, raised>>

\* The key's time to live ends.
Evict(c, w) ==
    /\ expires[c][w] # None /\ minute >= expires[c][w]
    /\ counter' = [counter EXCEPT ![c][w] = 0]
    /\ expires' = [expires EXCEPT ![c][w] = None]
    /\ UNCHANGED <<optional, minute, request, at, count, stage, response, raised>>

Next ==
    \/ \E r \in Requests, k \in Kinds : Receive(r, k)
    \/ \E r \in Requests, c \in Callers : Identify(r, c)
    \/ \E r \in Requests : Incr(r) \/ Expire(r) \/ FailOpen(r) \/ Handle(r)
    \/ Tick
    \/ \E c \in Callers, w \in Windows : Evict(c, w)

Spec == Init /\ [][Next]_vars
-----------------------------------------------------------------------------
(* Properties.                                                             *)

TypeOK ==
    /\ optional \subseteq {"security", "https", "hosts"}
    /\ minute \in Windows
    /\ counter \in [Callers -> [Windows -> Nat]]
    /\ expires \in [Callers -> [Windows -> Nat \cup {None}]]
    /\ caller \in [Requests -> Callers \cup {None}]
    /\ window \in [Requests -> Windows]
    /\ at \in [Requests -> Windows \cup {None}]
    /\ count \in [Requests -> Nat]
    /\ stage \in [Requests -> {"new", "incr", "expire", "app", "done"}]
    /\ response \in [Requests -> Response \cup {None}]
    /\ raised \subseteq Requests

\* Let through to the routes, whatever they answered since.
Passed(r) == stage[r] = "app" \/ (response[r] # None /\ response[r].by \in {"app", "server"})

\* Let through in the minute they arrived, by a limiter whose Redis calls returned.
Admitted(c, w) ==
    {r \in Requests \ raised : caller[r] = c /\ window[r] = w /\ at[r] = w /\ Passed(r)}

\* All that reached Redis for a counter, whenever.
Asked(c, w) == {r \in Requests : caller[r] = c /\ window[r] = w /\ at[r] # None}

\* At most Limit requests of a caller reach the routes in one minute, however many are
\* in flight between the two Redis calls and whatever expires.  Two kinds the limiter
\* does not promise this of: a request it failed on, which goes on uncounted, and one
\* whose INCR came after its minute, when the counter may have expired.
AdmittedWithinLimit ==
    \A c \in Callers, w \in Windows : Cardinality(Admitted(c, w)) <= Limit

\* Nobody is refused for the requests of others, for a Redis error or for a minute
\* gone by: a 429 has more than Limit requests of its caller and minute behind it.
RefusedOverLimit ==
    \A r \in Requests : response[r] # None /\ response[r].by = "limit" =>
        Cardinality(Asked(caller[r], window[r])) > Limit

\* A counter without a time to live, which stays in Redis for ever, has a request of its
\* own caller and minute behind it: one still between INCR and EXPIRE, or one whose
\* Redis call raised.
LeaksHaveACause ==
    \A c \in Callers, w \in Windows :
        counter[c][w] > 0 /\ expires[c][w] = None =>
            \E r \in Requests :
                caller[r] = c /\ window[r] = w /\ (stage[r] = "expire" \/ r \in raised)

\* What create_app says of its order: whoever answers an API request with the error
\* envelope, the browser may read it and it carries the request id.  The exception of
\* last resort does not.
ErrorsAreReadable ==
    \A r \in Requests :
        response[r] # None /\ Enveloped(response[r]) /\ response[r].what # "unexpected" =>
            {"cors", "context"} \subseteq Headers(response[r].by)
=============================================================================
