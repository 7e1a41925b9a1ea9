------------------------------- MODULE Accounts -------------------------------
(***************************************************************************)
(* Requests that look rows up and then write them, each in a session of    *)
(* its own: signup and login, API keys, the principal that every protected *)
(* route resolves from a token or a key, and feedback on answers.  At READ *)
(* COMMITTED what was looked up may be stale at the commit; the unique     *)
(* indexes on e-mail and on (message, user) are all that orders them.      *)
(*                                                                         *)
(* Granularity: one action per statement whose result a later one uses,    *)
(* and per commit.  revoke_api_key is one: what it reads it only compares  *)
(* with constants of the row.  A request may stop at any step; an answer   *)
(* that is lost on its way is one its client makes no use of.              *)
(*                                                                         *)
(* A user is named by an e-mail, a password by the signup that set it, and *)
(* the answer a user may rate by that user.  The code never disables an    *)
(* account and never deletes a key.  Token expiry is left out.             *)
(***************************************************************************)
EXTENDS Naturals

CONSTANTS
    Requests, Emails, Keys,
    Comments,  \* comments of a rating; None is one
    Earlier,   \* the signup of an account that exists from the start
    None

Rating == [rating : {"up", "down"}, comment : Comments]
Answers == {"ok", "conflict", "unauthorized", "not_found", "error"}

ASSUME AccountsAssumption ==
    /\ None \notin Requests \cup Emails \cup Keys \cup Rating \cup Answers
    /\ Earlier \notin Requests \cup {None}

VARIABLES
    account,   \* users: the signup whose password the user of an e-mail has
    owner,     \* api_keys: the user of a key, None without a row
    revoked,   \* api_keys with a revoked_at
    feedback,  \* answer_feedback: the rating of a user's answer
    op,        \* what a request asks for
    stage,     \* where it is
    who,       \* its principal
    loaded,    \* the feedback row it loaded
    response,  \* how it ended
    before     \* the requests that had ended when it began

tables   == <<account, owner, revoked, feedback>>
sessions == <<op, stage, who, loaded, response, before>>
vars     == <<tables, sessions>>

Stages == {"new", "begun", "touch", "operate", "write", "done"}

Credentials ==
    {<<"token", e>> : e \in {e \in Emails : account[e] # None}}
        \cup {<<"key", k>> : k \in {k \in Keys : owner[k] # None}}

Signups == [do : {"signup"}, email : Emails]
Logins  == [do : {"login"}, email : Emails, password : Requests]
Calls   ==
    [do : {"get", "create"}, by : Credentials]
        \cup [do : {"revoke"}, by : Credentials, key : {k \in Keys : owner[k] # None}]
        \cup [do : {"rate"}, by : Credentials, answer : Emails, value : Rating]

Init ==
    /\ account \in [Emails -> {Earlier, None}]
    /\ owner \in [Keys -> {e \in Emails : account[e] # None} \cup {None}]
    /\ revoked = {}
    /\ feedback = [e \in Emails |-> None]
    /\ op = [r \in Requests |-> None]
    /\ stage = [r \in Requests |-> "new"]
    /\ who = [r \in Requests |-> None]
    /\ loaded = [r \in Requests |-> None]
    /\ response = [r \in Requests |-> None]
    /\ before = [r \in Requests |-> {}]

-----------------------------------------------------------------------------
Begun(r)  == stage[r] # "new"
Does(r, d) == Begun(r) /\ op[r].do = d
At(r, s, d) == stage[r] = s /\ op[r].do = d

Goto(r, s) == stage' = [stage EXCEPT ![r] = s] /\ UNCHANGED response

Reply(r, a) ==
    /\ stage' = [stage EXCEPT ![r] = "done"]
    /\ response' = [response EXCEPT ![r] = a]

Begin(r) ==
    /\ stage[r] = "new"
    /\ \E o \in Signups \cup Logins \cup Calls : op' = [op EXCEPT ![r] = o]
    /\ before' = [before EXCEPT ![r] = {q \in Requests : stage[q] = "done"}]
    /\ Goto(r, "begun")
    /\ UNCHANGED <<tables, who, loaded>>

-----------------------------------------------------------------------------
(* Signup and login.                                                       *)

SignupLookup(r) ==
    /\ At(r, "begun", "signup")
    /\ IF account[op[r].email] # None THEN Reply(r, "conflict") ELSE Goto(r, "write")
    /\ UNCHANGED <<tables, op, who, loaded, before>>

\* Fault: the e-mail has no unique index, and the last row is the one found.
SignupUnguarded(r) ==
    /\ At(r, "write", "signup")
    /\ account' = [account EXCEPT ![op[r].email] = r] /\ Reply(r, "ok")
    /\ UNCHANGED <<owner, revoked, feedback, op, who, loaded, before>>

\* Tenant and user are one transaction: uq_users_email undoes both, and the
\* IntegrityError is answered as an unexpected one.
SignupCommit(r) ==
    /\ At(r, "write", "signup")
    /\ IF account[op[r].email] = None
       THEN account' = [account EXCEPT ![op[r].email] = r] /\ Reply(r, "ok")
       ELSE Reply(r, "error") /\ UNCHANGED account
    /\ UNCHANGED <<owner, revoked, feedback, op, who, loaded, before>>

Login(r) ==
    /\ At(r, "begun", "login")
    /\ Reply(r, IF account[op[r].email] = op[r].password THEN "ok" ELSE "unauthorized")
    /\ UNCHANGED <<tables, op, who, loaded, before>>

-----------------------------------------------------------------------------
(* get_current_principal, which every other request runs first.            *)

Calling(r, kind) ==
    stage[r] = "begun" /\ op[r].do \notin {"signup", "login"} /\ op[r].by[1] = kind

ByToken(r) ==
    /\ Calling(r, "token")
    /\ who' = [who EXCEPT ![r] = op[r].by[2]]
    /\ Goto(r, "operate")
    /\ UNCHANGED <<tables, op, loaded, before>>

ByKey(r) ==
    /\ Calling(r, "key")
    /\ IF op[r].by[2] \in revoked THEN Reply(r, "unauthorized") ELSE Goto(r, "touch")
    /\ UNCHANGED <<tables, op, who, loaded, before>>

\* Fault: the whole row is written back as it was loaded.
TouchRow(r) ==
    /\ stage[r] = "touch"
    /\ who' = [who EXCEPT ![r] = owner[op[r].by[2]]]
    /\ revoked' = revoked \ {op[r].by[2]}
    /\ Goto(r, "operate")
    /\ UNCHANGED <<account, owner, feedback, op, loaded, before>>

\* last_used_at, the only column that changed, is written and committed; a key
\* revoked since the select stays revoked, and the request goes on.
Touch(r) ==
    /\ stage[r] = "touch"
    /\ who' = [who EXCEPT ![r] = owner[op[r].by[2]]]
    /\ Goto(r, "operate")
    /\ UNCHANGED <<tables, op, loaded, before>>

Get(r) ==
    /\ At(r, "operate", "get")
    /\ Reply(r, "ok")
    /\ UNCHANGED <<tables, op, who, loaded, before>>

\* A fresh key.
CreateKey(r) ==
    /\ At(r, "operate", "create")
    /\ \E k \in Keys : owner[k] = None /\ owner' = [owner EXCEPT ![k] = who[r]]
    /\ Reply(r, "ok")
    /\ UNCHANGED <<account, revoked, feedback, op, who, loaded, before>>

RevokeKey(r) ==
    /\ At(r, "operate", "revoke")
    /\ IF owner[op[r].key] = who[r]
       THEN revoked' = revoked \cup {op[r].key} /\ Reply(r, "ok")
       ELSE Reply(r, "not_found") /\ UNCHANGED revoked
    /\ UNCHANGED <<account, owner, feedback, op, who, loaded, before>>

-----------------------------------------------------------------------------
(* record_feedback.                                                        *)

\* Fault: the lookup of an earlier rating misses it.
LoadNothing(r) ==
    /\ At(r, "operate", "rate")
    /\ IF op[r].answer # who[r] THEN Reply(r, "not_found") ELSE Goto(r, "write")
    /\ UNCHANGED <<tables, op, who, loaded, before>>

\* Only the answers of the principal's tenant may be rated.
LoadFeedback(r) ==
    /\ At(r, "operate", "rate")
    /\ IF op[r].answer # who[r]
       THEN Reply(r, "not_found") /\ UNCHANGED loaded
       ELSE Goto(r, "write") /\ loaded' = [loaded EXCEPT ![r] = feedback[op[r].answer]]
    /\ UNCHANGED <<tables, op, who, before>>

\* Fault: an earlier rating is returned as it is.
SaveFirstOnly(r) ==
    /\ At(r, "write", "rate")
    /\ IF feedback[op[r].answer] = None
       THEN feedback' = [feedback EXCEPT ![op[r].answer] = op[r].value]
       ELSE UNCHANGED feedback
    /\ Reply(r, "ok")
    /\ UNCHANGED <<account, owner, revoked, op, who, loaded, before>>

\* A column of a loaded row is written if it differs from what was loaded.
Merged(now, old, new) == [c \in DOMAIN new |-> IF new[c] = old[c] THEN now[c] ELSE new[c]]

\* An insert that finds a row since committed violates the unique index.
SaveFeedback(r) ==
    LET m == op[r].answer IN
    /\ At(r, "write", "rate")
    /\ IF loaded[r] = None /\ feedback[m] # None
       THEN Reply(r, "error") /\ UNCHANGED feedback
       ELSE /\ feedback' = [feedback EXCEPT ![m] =
                  IF loaded[r] = None THEN op[r].value
                  ELSE Merged(@, loaded[r], op[r].value)]
            /\ Reply(r, "ok")
    /\ loaded' = [loaded EXCEPT ![r] = None]
    /\ UNCHANGED <<account, owner, revoked, op, who, before>>

Next == \E r \in Requests :
    \/ Begin(r)
    \/ SignupLookup(r) \/ SignupCommit(r) \/ Login(r)
    \/ ByToken(r) \/ ByKey(r) \/ Touch(r)
    \/ Get(r) \/ CreateKey(r) \/ RevokeKey(r)
    \/ LoadFeedback(r) \/ SaveFeedback(r)

Spec == Init /\ [][Next]_vars
-----------------------------------------------------------------------------
(* Properties.                                                             *)

TypeOK ==
    /\ account \in [Emails -> Requests \cup {Earlier, None}]
    /\ owner \in [Keys -> Emails \cup {None}]
    /\ revoked \subseteq Keys
    /\ feedback \in [Emails -> Rating \cup {None}]
    /\ stage \in [Requests -> Stages]
    /\ who \in [Requests -> Emails \cup {None}]
    /\ loaded \in [Requests -> Rating \cup {None}]
    /\ response \in [Requests -> Answers \cup {None}]
    /\ before \in [Requests -> SUBSET Requests]

\* Whoever was told that a signup succeeded has the account, and can log in from then
\* on; whoever was refused does not have it, although both may have passed the lookup.
SignupDecides ==
    \A r \in Requests : Does(r, "signup") =>
        /\ response[r] = "ok" => account[op[r].email] = r
        /\ response[r] \in {"conflict", "error"} => account[op[r].email] # r
        /\ \A q \in Requests :
            /\ response[r] = "ok" /\ r \in before[q] /\ response[q] # None
            /\ Does(q, "login") /\ op[q].email = op[r].email /\ op[q].password = r
            => response[q] = "ok"

\* Once a revocation was answered no request that begins with the key gets in, even if
\* others were using the key while it was revoked (revoke_api_key and the commit of
\* last_used_at in get_current_principal).
RevocationHolds ==
    \A r, q \in Requests :
        /\ Does(r, "revoke") /\ response[r] = "ok" /\ r \in before[q]
        /\ op[q].do \notin {"signup", "login"} /\ op[q].by = <<"key", op[r].key>>
        => who[q] = None /\ response[q] \in {None, "unauthorized"}

SameTarget(r, q) ==
    \/ Does(r, "rate") /\ Does(q, "rate") /\ op[r].answer = op[q].answer
    \/ Does(r, "signup") /\ Does(q, "signup") /\ op[r].email = op[q].email

\* A rating that was acknowledged stands, both columns of it, until somebody rates the
\* answer again: only ratings that overlap may mix or lose one.
RatingStands ==
    \A r \in Requests : Does(r, "rate") /\ response[r] = "ok" =>
        \/ feedback[op[r].answer] = op[r].value
        \/ \E q \in Requests \ {r} : SameTarget(r, q) /\ q \notin before[r]

\* An unexpected error needs a second request on the same row at the same time: clients
\* that take turns are told "conflict", or have their rating updated.
ErrorsNeedARace ==
    \A r \in Requests : response[r] = "error" =>
        \E q \in Requests \ {r} :
            SameTarget(r, q) /\ q \notin before[r] /\ r \notin before[q]
=============================================================================
