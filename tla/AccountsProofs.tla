---------------------------- MODULE AccountsProofs ----------------------------
(***************************************************************************)
(* Theorems about signups, API keys and feedback, for any number of        *)
(* requests, e-mails, keys and comments.                                   *)
(*                                                                         *)
(* What a request was told must agree with what other requests did before, *)
(* during and after it.  AccountsInv says whom a lookup may have missed    *)
(* (Fresh) and where a request may be that a revocation shuts out (Shut).  *)
(***************************************************************************)
EXTENDS Accounts, TLAPS

Creds == ({"token"} \X Emails) \cup ({"key"} \X Keys)

WellFormed(o) ==
    /\ o.do \in {"signup", "login", "get", "create", "revoke", "rate"}
    /\ o.do \in {"signup", "login"} => o.email \in Emails
    /\ o.do \notin {"signup", "login"} => o.by \in Creds
    /\ o.do = "revoke" => o.key \in Keys
    /\ o.do = "rate" => o.answer \in Emails /\ o.value \in Rating

\* Where a request is, and what it has by then.
AtItsStep == DOMAIN op = Requests /\
    \A r \in Requests :
        /\ stage[r] # "new" => WellFormed(op[r])
        /\ stage[r] \in {"new", "begun"} => who[r] = None
        /\ stage[r] # "done" => response[r] = None
        /\ stage[r] \in {"touch", "operate"} => op[r].do \notin {"signup", "login"}
        /\ stage[r] = "touch" => op[r].by[1] = "key"
        /\ stage[r] = "write" => op[r].do \in {"signup", "rate"}
        /\ \A q \in before[r] : stage[q] = "done"
        /\ loaded[r] # None => stage[r] = "write" /\ op[r].do = "rate" /\ feedback[op[r].answer] # None

\* Two requests on one row of which neither came first.
Overlap(r, q) == q # r /\ SameTarget(r, q) /\ q \notin before[r] /\ r \notin before[q]

\* What a request has looked up is still so, or another one overlaps it.
Fresh ==
    \A r \in Requests : stage[r] = "write" =>
        \/ op[r].do = "signup" /\ account[op[r].email] = None
        \/ op[r].do = "rate" /\ loaded[r] = feedback[op[r].answer]
        \/ \E q \in Requests : Overlap(r, q)

\* An account was made by a signup that was told so.
Made ==
    \A e \in Emails : account[e] \in Requests =>
        LET r == account[e] IN
        stage[r] = "done" /\ op[r].do = "signup" /\ op[r].email = e /\ response[r] = "ok"

Revoked(r, q) ==
    /\ Does(r, "revoke") /\ response[r] = "ok" /\ r \in before[q]
    /\ op[q].do \notin {"signup", "login"} /\ op[q].by = <<"key", op[r].key>>

Shut ==
    /\ \A r \in Requests : Does(r, "revoke") /\ response[r] = "ok" => op[r].key \in revoked
    /\ \A r, q \in Requests : Revoked(r, q) => stage[q] \in {"begun", "done"}

AccountsInv ==
    /\ TypeOK /\ AtItsStep
    /\ Fresh /\ Made /\ Shut
    /\ SignupDecides /\ RevocationHolds /\ RatingStands /\ ErrorsNeedARace

USE AccountsAssumption DEF Answers

-----------------------------------------------------------------------------
LEMMA InitAccounts == Init => AccountsInv
<1> SUFFICES ASSUME Init PROVE AccountsInv
  OBVIOUS
<1>1. /\ account \in [Emails -> {Earlier, None}] /\ owner \in [Keys -> Emails \cup {None}]
      /\ revoked = {} /\ DOMAIN op = Requests
      /\ \A r \in Requests : /\ stage[r] = "new" /\ who[r] = None /\ loaded[r] = None
                             /\ response[r] = None /\ before[r] = {}
  BY DEF Init
<1>2. TypeOK
  BY <1>1 DEF Init, TypeOK, Stages
<1>3. AtItsStep /\ Fresh
  BY <1>1 DEF AtItsStep, Fresh
<1>4. Made
  BY <1>1 DEF Made
<1>5. Shut /\ SignupDecides /\ RevocationHolds /\ RatingStands /\ ErrorsNeedARace
  BY <1>1
  DEF Shut, Revoked, SignupDecides, RevocationHolds, RatingStands, ErrorsNeedARace, Does, Begun
<1> QED BY <1>2, <1>3, <1>4, <1>5 DEF AccountsInv

\* A request that begins knows those that ended.
LEMMA BeginStep ==
    ASSUME AccountsInv, NEW r \in Requests, Begin(r)
    PROVE  AccountsInv'
<1>1. PICK o \in Signups \cup Logins \cup Calls : op' = [op EXCEPT ![r] = o]
  BY DEF Begin
<1>2. WellFormed(o)
  BY DEF Signups, Logins, Calls, Credentials, Creds, WellFormed
<1>3. /\ stage[r] = "new" /\ stage' = [stage EXCEPT ![r] = "begun"]
      /\ before' = [before EXCEPT ![r] = {q \in Requests : stage[q] = "done"}]
      /\ UNCHANGED <<account, owner, revoked, feedback, who, loaded, response>>
  BY DEF Begin, Goto, tables
<1>4. \A x \in Requests : x # r => op'[x] = op[x] /\ stage'[x] = stage[x] /\ before'[x] = before[x]
  BY <1>1, <1>3 DEF AccountsInv, TypeOK, AtItsStep
<1>5. op'[r] = o /\ stage'[r] = "begun" /\ before'[r] = {q \in Requests : stage[q] = "done"}
  BY <1>1, <1>3 DEF AccountsInv, TypeOK, AtItsStep
<1>6. who[r] = None /\ response[r] = None /\ loaded[r] = None /\ \A x \in Requests : r \notin before[x]
  BY <1>3 DEF AccountsInv, AtItsStep
<1>7. TypeOK'
  BY <1>3 DEF AccountsInv, TypeOK, Stages
<1>8. AtItsStep'
  BY <1>1, <1>2, <1>3, <1>4, <1>5, <1>6 DEF AccountsInv, AtItsStep
<1>9. \A x, q \in Requests : Overlap(x, q) => Overlap(x, q)'
  BY <1>3, <1>4 DEF Overlap, SameTarget, Does, Begun
<1>10. Fresh'
  BY <1>3, <1>4, <1>5, <1>9 DEF AccountsInv, Fresh
<1>11. Made'
  BY <1>3, <1>4, <1>5 DEF AccountsInv, Made
<1>a. \A x \in Requests : response[x] # None => x # r
  BY <1>6
<1>b. \A x, q \in Requests : SameTarget(x, q) => SameTarget(x, q)'
  BY <1>3, <1>4 DEF SameTarget, Does, Begun
<1>c. \A x \in Requests : \A d : response[x] # None /\ Does(x, d)' => Does(x, d)
  BY <1>3, <1>4, <1>a DEF Does, Begun
<1>12. Shut'
  <2>1. \A x, q \in Requests : Revoked(x, q)' => q = r \/ Revoked(x, q)
    BY <1>3, <1>4, <1>a, <1>c DEF Revoked
  <2> QED BY <1>3, <1>4, <1>5, <1>a, <1>c, <2>1 DEF AccountsInv, Shut
<1>13. RevocationHolds'
  <2> SUFFICES ASSUME NEW x \in Requests, NEW q \in Requests, Revoked(x, q)'
               PROVE  who[q] = None /\ response[q] \in {None, "unauthorized"}
    BY <1>3 DEF RevocationHolds, Revoked
  <2>1. CASE q = r
    BY <1>6, <2>1
  <2>2. CASE q # r
    BY <1>3, <1>4, <1>a, <1>c, <2>2 DEF AccountsInv, RevocationHolds, Revoked
  <2> QED BY <2>1, <2>2
<1>14. SignupDecides'
  <2> SUFFICES ASSUME NEW x \in Requests, Does(x, "signup")', response[x] # None
               PROVE  /\ response[x] = "ok" => account[op[x].email] = x
                      /\ response[x] \in {"conflict", "error"} => account[op[x].email] # x
                      /\ \A q \in Requests :
                          /\ response[x] = "ok" /\ x \in before'[q] /\ response[q] # None
                          /\ Does(q, "login")' /\ op'[q].email = op[x].email /\ op'[q].password = x
                          => response[q] = "ok"
    BY <1>3, <1>4, <1>a DEF SignupDecides
  <2>1. Does(x, "signup")
    BY <1>c
  <2> QED BY <1>4, <1>a, <1>c, <2>1 DEF AccountsInv, SignupDecides
<1>15. RatingStands'
  <2> SUFFICES ASSUME NEW x \in Requests, Does(x, "rate")', response[x] = "ok"
               PROVE  \/ feedback[op[x].answer] = op[x].value
                      \/ \E q \in Requests \ {x} : SameTarget(x, q)' /\ q \notin before'[x]
    BY <1>3, <1>4, <1>a DEF RatingStands
  <2>1. Does(x, "rate")
    BY <1>c
  <2> QED BY <1>4, <1>a, <1>b, <2>1 DEF AccountsInv, RatingStands
<1>16. ErrorsNeedARace'
  <2> SUFFICES ASSUME NEW x \in Requests, response[x] = "error"
               PROVE  \E q \in Requests \ {x} :
                          SameTarget(x, q)' /\ q \notin before'[x] /\ x \notin before'[q]
    BY <1>3 DEF ErrorsNeedARace
  <2>1. PICK q \in Requests \ {x} : SameTarget(x, q) /\ q \notin before[x] /\ x \notin before[q]
    BY DEF AccountsInv, ErrorsNeedARace
  <2>2. q # r
    BY <1>3, <2>1 DEF SameTarget, Does, Begun
  <2> QED BY <1>4, <1>a, <1>b, <2>1, <2>2
<1> QED
  BY <1>7, <1>8, <1>10, <1>11, <1>12, <1>13, <1>14, <1>15, <1>16
  DEF AccountsInv

-----------------------------------------------------------------------------
\* The steps of a request that has begun.
Step(r) ==
    \/ SignupLookup(r) \/ SignupCommit(r) \/ Login(r)
    \/ ByToken(r) \/ ByKey(r) \/ Touch(r)
    \/ Get(r) \/ CreateKey(r) \/ RevokeKey(r)
    \/ LoadFeedback(r) \/ SaveFeedback(r)

LEMMA StepTypes == ASSUME AccountsInv, NEW r \in Requests, Step(r) PROVE TypeOK'
<1>0. /\ stage \in [Requests -> Stages] /\ response \in [Requests -> Answers \cup {None}]
      /\ {"touch", "operate", "write", "done"} \subseteq Stages
  BY DEF AccountsInv, TypeOK, Stages
<1>1. CASE SignupLookup(r) \/ Login(r)
  BY <1>0, <1>1 DEF AccountsInv, TypeOK, SignupLookup, Login, Reply, Goto, tables, Stages
<1>2. CASE SignupCommit(r)
  BY <1>0, <1>2 DEF AccountsInv, TypeOK, SignupCommit, Reply, Stages
<1>3. CASE ByToken(r)
  <2>1. op[r].by \in Creds /\ op[r].by[1] = "token"
    BY <1>3 DEF AccountsInv, AtItsStep, WellFormed, ByToken, Calling
  <2>2. op[r].by[2] \in Emails
    BY <2>1 DEF Creds
  <2> QED BY <1>0, <1>3, <2>2 DEF AccountsInv, TypeOK, ByToken, Goto, tables, Stages
<1>4. CASE ByKey(r) \/ Get(r)
  BY <1>0, <1>4 DEF AccountsInv, TypeOK, ByKey, Get, Reply, Goto, tables, Stages
<1>5. CASE Touch(r)
  <2>1. op[r].by \in Creds /\ op[r].by[1] = "key"
    BY <1>5 DEF AccountsInv, AtItsStep, WellFormed, Touch
  <2>2. owner[op[r].by[2]] \in Emails \cup {None}
    BY <1>5, <2>1 DEF AccountsInv, TypeOK, Creds
  <2> QED BY <1>0, <1>5, <2>2 DEF AccountsInv, TypeOK, Touch, Goto, tables, Stages
<1>6. CASE CreateKey(r) \/ RevokeKey(r)
  <2>1. op[r].do = "revoke" => op[r].key \in Keys
    BY <1>6 DEF AccountsInv, AtItsStep, WellFormed, CreateKey, RevokeKey, At
  <2> QED BY <1>0, <1>6, <2>1 DEF AccountsInv, TypeOK, CreateKey, RevokeKey, At, Reply, Stages
<1>7. CASE LoadFeedback(r)
  <2>1. op[r].answer \in Emails
    BY <1>7 DEF AccountsInv, AtItsStep, WellFormed, LoadFeedback, At
  <2> QED BY <1>0, <1>7, <2>1 DEF AccountsInv, TypeOK, LoadFeedback, Reply, Goto, tables, Stages
<1>8. CASE SaveFeedback(r)
  <2> DEFINE m == op[r].answer
  <2>1. m \in Emails /\ op[r].value \in Rating
    BY <1>8 DEF AccountsInv, AtItsStep, WellFormed, SaveFeedback, At
  <2>2. loaded[r] # None => feedback[m] \in Rating /\ loaded[r] \in Rating
    BY <2>1 DEF AccountsInv, TypeOK, AtItsStep
  <2>3. loaded[r] # None => Merged(feedback[m], loaded[r], op[r].value) \in Rating
    BY <2>1, <2>2 DEF Merged, Rating
  <2>4. feedback' \in [Emails -> Rating \cup {None}]
    BY <1>8, <2>1, <2>3 DEF AccountsInv, TypeOK, SaveFeedback
  <2> QED BY <1>0, <1>8, <2>4 DEF AccountsInv, TypeOK, SaveFeedback, Reply, Stages
<1> QED BY <1>1, <1>2, <1>3, <1>4, <1>5, <1>6, <1>7, <1>8 DEF Step

\* A step leaves all other requests where they are.
Framed(r) ==
    /\ stage[r] \notin {"new", "done"} /\ stage'[r] \notin {"new", "begun"}
    /\ response[r] = None /\ (stage'[r] # "done" => response'[r] = None)
    /\ UNCHANGED <<op, before>>
    /\ \A x \in Requests : x # r =>
        /\ stage'[x] = stage[x] /\ response'[x] = response[x]
        /\ who'[x] = who[x] /\ loaded'[x] = loaded[x]

LEMMA StepFrame == ASSUME AccountsInv, NEW r \in Requests, Step(r) PROVE Framed(r)
<1>1. stage[r] \notin {"new", "done"} /\ response[r] = None /\ UNCHANGED <<op, before>>
  BY DEF Step, AccountsInv, AtItsStep, SignupLookup, SignupCommit, Login, ByToken, ByKey, Touch, Get,
      CreateKey, RevokeKey, LoadFeedback, SaveFeedback, At, Calling
<1>2. /\ \/ \E a \in Answers : Reply(r, a)
         \/ \E s \in {"touch", "operate", "write"} : Goto(r, s)
      /\ who' = who \/ \E v : who' = [who EXCEPT ![r] = v]
      /\ loaded' = loaded \/ \E v : loaded' = [loaded EXCEPT ![r] = v]
  <2>1. CASE SignupLookup(r) \/ SignupCommit(r) \/ Login(r) \/ Get(r) \/ CreateKey(r) \/ RevokeKey(r)
    BY <2>1 DEF SignupLookup, SignupCommit, Login, Get, CreateKey, RevokeKey
  <2>2. CASE ByToken(r) \/ ByKey(r) \/ Touch(r)
    BY <2>2 DEF ByToken, ByKey, Touch
  <2>3. CASE LoadFeedback(r) \/ SaveFeedback(r)
    BY <2>3 DEF LoadFeedback, SaveFeedback
  <2> QED BY <2>1, <2>2, <2>3 DEF Step
<1>3. \A x \in Requests : x # r => who'[x] = who[x] /\ loaded'[x] = loaded[x]
  BY <1>2 DEF AccountsInv, TypeOK
<1>4. CASE \E a \in Answers : Reply(r, a)
  BY <1>1, <1>3, <1>4 DEF AccountsInv, TypeOK, Reply, Framed
<1>5. CASE \E s \in {"touch", "operate", "write"} : Goto(r, s)
  BY <1>1, <1>3, <1>5 DEF AccountsInv, TypeOK, Goto, Framed
<1> QED BY <1>2, <1>4, <1>5

\* What two requests have to do with each other does not change under a step.
LEMMA Related ==
    ASSUME AccountsInv, NEW r \in Requests, Framed(r)
    PROVE  /\ \A x \in Requests : \A d : Does(x, d)' <=> Does(x, d)
           /\ \A x, q \in Requests : SameTarget(x, q)' <=> SameTarget(x, q)
           /\ \A x, q \in Requests : Overlap(x, q)' <=> Overlap(x, q)
           /\ \A x \in Requests : r \notin before[x]
           /\ \A x \in Requests : response[x] # None => x # r /\ response'[x] = response[x]
<1>1. \A x \in Requests : \A d : Does(x, d)' <=> Does(x, d)
  BY DEF Framed, Does, Begun
<1>2. \A x, q \in Requests : SameTarget(x, q)' <=> SameTarget(x, q)
  BY <1>1 DEF Framed, SameTarget
<1>3. \A x, q \in Requests : Overlap(x, q)' <=> Overlap(x, q)
  BY <1>2 DEF Framed, Overlap
<1> QED BY <1>1, <1>2, <1>3 DEF Framed, AccountsInv, AtItsStep

LEMMA AtItsStepKept == ASSUME AccountsInv, NEW r \in Requests, Step(r) PROVE AtItsStep'
<1>1. Framed(r)
  BY StepFrame
<1>2. /\ stage'[r] = "touch" => op[r].do \notin {"signup", "login"} /\ op[r].by[1] = "key"
      /\ stage'[r] = "operate" => op[r].do \notin {"signup", "login"}
      /\ stage'[r] = "write" => op[r].do \in {"signup", "rate"}
      /\ loaded'[r] # None =>
            stage'[r] = "write" /\ op[r].do = "rate" /\ feedback'[op[r].answer] # None
  <2>1. CASE SignupLookup(r) \/ SignupCommit(r) \/ Login(r) \/ Get(r) \/ CreateKey(r) \/ RevokeKey(r)
    BY <2>1 DEF AccountsInv, TypeOK, AtItsStep, SignupLookup, SignupCommit, Login, Get, CreateKey,
                RevokeKey, At, Reply, Goto, tables
  <2>2. CASE ByToken(r) \/ ByKey(r) \/ Touch(r)
    BY <2>2 DEF AccountsInv, TypeOK, AtItsStep, ByToken, ByKey, Touch, Calling, Reply, Goto, tables
  <2>3. CASE LoadFeedback(r) \/ SaveFeedback(r)
    BY <2>3 DEF AccountsInv, TypeOK, AtItsStep, LoadFeedback, SaveFeedback, At, Reply, Goto, tables
  <2> QED BY <2>1, <2>2, <2>3 DEF Step
<1>3. \A e \in Emails : feedback[e] # None => feedback'[e] # None
  <2>1. CASE SaveFeedback(r)
    <3>1. /\ op[r].answer \in Emails /\ op[r].value \in Rating
      BY <2>1 DEF AccountsInv, AtItsStep, WellFormed, SaveFeedback, At
    <3>2. loaded[r] # None => Merged(feedback[op[r].answer], loaded[r], op[r].value) # None
      <4>1. SUFFICES ASSUME loaded[r] # None
                     PROVE  Merged(feedback[op[r].answer], loaded[r], op[r].value) \in Rating
        OBVIOUS
      <4>2. feedback[op[r].answer] \in Rating /\ loaded[r] \in Rating
        BY <3>1, <4>1 DEF AccountsInv, TypeOK, AtItsStep
      <4> QED BY <3>1, <4>2 DEF Merged, Rating
    <3> QED BY <2>1, <3>1, <3>2 DEF AccountsInv, TypeOK, SaveFeedback
  <2>2. CASE ~SaveFeedback(r)
    BY <2>2 DEF Step, SignupLookup, SignupCommit, Login, ByToken, ByKey, Touch, Get, CreateKey,
                RevokeKey, LoadFeedback, tables
  <2> QED BY <2>1, <2>2
<1>4. \A x \in Requests : op[x].do = "rate" /\ stage[x] # "new" => op[x].answer \in Emails
  BY DEF AccountsInv, AtItsStep, WellFormed
<1>5. \A x \in Requests : WellFormed(op[x]) => WellFormed(op'[x])
  BY <1>1 DEF Framed
<1>6. \A x \in Requests : before'[x] = before[x] /\ (\A q \in before[x] : stage[q] = "done" /\ q \in Requests)
  BY <1>1 DEF Framed, AccountsInv, TypeOK, AtItsStep
<1>7. \A x \in Requests : \A q \in before[x] : stage'[q] = "done"
  BY <1>1, <1>6 DEF Framed
<1>8. SUFFICES ASSUME NEW x \in Requests
      PROVE  /\ stage'[x] # "new" => WellFormed(op[x])
             /\ stage'[x] \in {"new", "begun"} => who'[x] = None
             /\ stage'[x] # "done" => response'[x] = None
             /\ stage'[x] \in {"touch", "operate"} => op[x].do \notin {"signup", "login"}
             /\ stage'[x] = "touch" => op[x].by[1] = "key"
             /\ stage'[x] = "write" => op[x].do \in {"signup", "rate"}
             /\ loaded'[x] # None =>
                   stage'[x] = "write" /\ op[x].do = "rate" /\ feedback'[op[x].answer] # None
  BY <1>1, <1>6, <1>7 DEF Framed, AccountsInv, AtItsStep, WellFormed
<1>9. CASE x = r
  BY <1>1, <1>2, <1>9 DEF Framed, AccountsInv, AtItsStep
<1>10. CASE x # r
  BY <1>1, <1>3, <1>4, <1>10 DEF Framed, AccountsInv, AtItsStep
<1> QED BY <1>9, <1>10

\* The e-mail a signup found free, or the rating a request has loaded, is still there,
\* or whoever changed it overlaps the request.
LEMMA FreshKept == ASSUME AccountsInv, NEW r \in Requests, Step(r) PROVE Fresh'
<1>1. Framed(r)
  BY StepFrame
<1>2. stage'[r] = "write" =>
        \/ op[r].do = "signup" /\ account'[op[r].email] = None
        \/ op[r].do = "rate" /\ loaded'[r] = feedback'[op[r].answer]
  <2>1. CASE SignupLookup(r) \/ LoadFeedback(r)
    BY <2>1 DEF AccountsInv, TypeOK, SignupLookup, LoadFeedback, At, Reply, Goto, tables
  <2>2. CASE ~(SignupLookup(r) \/ LoadFeedback(r))
    BY <2>2 DEF Step, AccountsInv, TypeOK, SignupCommit, Login, Get, CreateKey, RevokeKey, ByToken, ByKey,
                Touch, SaveFeedback, Reply, Goto
  <2> QED BY <2>1, <2>2
<1>3. ASSUME NEW x \in Requests, x # r, stage[x] = "write"
      PROVE  \/ op[x].do = "signup" /\ account'[op[x].email] = None
             \/ op[x].do = "rate" /\ loaded[x] = feedback'[op[x].answer]
             \/ \E q \in Requests : Overlap(x, q)
  <2>0. /\ WellFormed(op[x]) /\ WellFormed(op[r]) /\ op[x].do \in {"signup", "rate"}
        /\ r \notin before[x] /\ x \notin before[r] /\ stage[r] # "new"
        /\ \/ op[x].do = "signup" /\ account[op[x].email] = None
           \/ op[x].do = "rate" /\ loaded[x] = feedback[op[x].answer]
           \/ \E q \in Requests : Overlap(x, q)
    BY <1>1, <1>3 DEF AccountsInv, Fresh, AtItsStep, Framed
  <2>1. CASE SignupCommit(r)
    <3>1. op[r].do = "signup" /\ op[r].email \in Emails /\ UNCHANGED feedback
      BY <2>0, <2>1 DEF SignupCommit, At, WellFormed
    <3>2. CASE op[x].do = "signup" /\ op[x].email = op[r].email
      BY <1>3, <2>0, <3>1, <3>2 DEF Overlap, SameTarget, Does, Begun
    <3>3. CASE op[x].do = "rate"
      BY <2>0, <3>1, <3>3
    <3>4. CASE op[x].do = "signup" /\ op[x].email # op[r].email
      <4>1. account'[op[x].email] = account[op[x].email]
        BY <2>0, <2>1, <3>1, <3>4 DEF SignupCommit, WellFormed, AccountsInv, TypeOK
      <4> QED BY <2>0, <3>4, <4>1
    <3> QED BY <2>0, <3>2, <3>3, <3>4
  <2>2. CASE SaveFeedback(r)
    <3>1. op[r].do = "rate" /\ op[r].answer \in Emails /\ UNCHANGED account
      BY <2>0, <2>2 DEF SaveFeedback, At, WellFormed
    <3>2. CASE op[x].do = "rate" /\ op[x].answer = op[r].answer
      BY <1>3, <2>0, <3>1, <3>2 DEF Overlap, SameTarget, Does, Begun
    <3>3. CASE op[x].do = "signup"
      BY <2>0, <3>1, <3>3
    <3>4. CASE op[x].do = "rate" /\ op[x].answer # op[r].answer
      <4>1. feedback'[op[x].answer] = feedback[op[x].answer]
        BY <2>0, <2>2, <3>1, <3>4 DEF SaveFeedback, WellFormed, AccountsInv, TypeOK
      <4> QED BY <2>0, <3>4, <4>1
    <3> QED BY <2>0, <3>2, <3>3, <3>4
  <2>3. CASE ~SignupCommit(r) /\ ~SaveFeedback(r)
    <3>1. UNCHANGED <<account, feedback>>
      BY <2>3 DEF Step, SignupLookup, Login, ByToken, ByKey, Touch, Get, CreateKey, RevokeKey,
                  LoadFeedback, tables
    <3> QED BY <1>3, <3>1 DEF AccountsInv, Fresh
  <2> QED BY <2>1, <2>2, <2>3
<1> QED BY <1>1, <1>2, <1>3, Related DEF Fresh, Framed

\* An account never changes hands.
LEMMA AccountKept ==
    ASSUME AccountsInv, NEW r \in Requests, Step(r)
    PROVE  \A e \in Emails :
               \/ account'[e] = account[e]
               \/ account[e] = None /\ account'[e] = r /\ SignupCommit(r) /\ Reply(r, "ok")
                  /\ op[r].do = "signup" /\ op[r].email = e
<1>1. CASE SignupCommit(r)
  BY <1>1 DEF SignupCommit, At, AccountsInv, TypeOK
<1>2. CASE ~SignupCommit(r)
  BY <1>2 DEF Step, SignupLookup, Login, ByToken, ByKey, Touch, Get, CreateKey, RevokeKey,
              LoadFeedback, SaveFeedback, tables
<1> QED BY <1>1, <1>2

LEMMA MadeKept == ASSUME AccountsInv, NEW r \in Requests, Step(r) PROVE Made'
<1>1. Framed(r)
  BY StepFrame
<1>2. SUFFICES ASSUME NEW e \in Emails, account'[e] \in Requests
      PROVE  LET x == account'[e] IN
             stage'[x] = "done" /\ op[x].do = "signup" /\ op[x].email = e /\ response'[x] = "ok"
  BY <1>1 DEF Made, Framed
<1>3. CASE account'[e] = account[e]
  BY <1>1, <1>2, <1>3 DEF AccountsInv, Made, Framed
<1>4. CASE account'[e] = r /\ Reply(r, "ok") /\ op[r].do = "signup" /\ op[r].email = e
  BY <1>4 DEF Reply, AccountsInv, TypeOK
<1> QED BY <1>3, <1>4, AccountKept

\* A signup is told what became of its account.
LEMMA SignupKept == ASSUME AccountsInv, NEW r \in Requests, Step(r) PROVE SignupDecides'
<1>1. Framed(r)
  BY StepFrame
<1>2. op[r].do = "signup" =>
        /\ response'[r] = "ok" => account'[op[r].email] = r
        /\ response'[r] \in {"conflict", "error"} => account'[op[r].email] # r
  <2> SUFFICES ASSUME op[r].do = "signup"
               PROVE  /\ response'[r] = "ok" => account'[op[r].email] = r
                      /\ response'[r] \in {"conflict", "error"} => account'[op[r].email] # r
    OBVIOUS
  <2>1. op[r].email \in Emails /\ account[op[r].email] # r
    BY <1>1 DEF Framed, AccountsInv, AtItsStep, WellFormed, Made
  <2>2. SignupLookup(r) \/ SignupCommit(r)
    BY <1>1 DEF Step, Login, ByToken, ByKey, Touch, Get, CreateKey, RevokeKey, LoadFeedback,
                SaveFeedback, At, Calling, AccountsInv, AtItsStep
  <2> QED
    BY <1>1, <2>1, <2>2 DEF SignupLookup, SignupCommit, Reply, Goto, tables, AccountsInv, TypeOK, Framed
<1>3. op[r].do = "login" /\ response'[r] # None =>
        response'[r] = IF account[op[r].email] = op[r].password THEN "ok" ELSE "unauthorized"
  <2> SUFFICES ASSUME op[r].do = "login" PROVE Login(r)
    BY DEF Login, Reply, AccountsInv, TypeOK
  <2> QED
    BY <1>1 DEF Step, SignupLookup, SignupCommit, ByToken, ByKey, Touch, Get, CreateKey, RevokeKey,
                LoadFeedback, SaveFeedback, At, Calling, AccountsInv, AtItsStep
<1> SUFFICES ASSUME NEW x \in Requests, Does(x, "signup")
             PROVE  /\ response'[x] = "ok" => account'[op[x].email] = x
                    /\ response'[x] \in {"conflict", "error"} => account'[op[x].email] # x
                    /\ \A q \in Requests :
                        /\ response'[x] = "ok" /\ x \in before[q] /\ response'[q] # None
                        /\ Does(q, "login") /\ op[q].email = op[x].email /\ op[q].password = x
                        => response'[q] = "ok"
  BY <1>1, Related DEF SignupDecides, Framed
<1>4. op[x].email \in Emails
  BY DEF Does, Begun, AccountsInv, AtItsStep, WellFormed
<1>5. /\ response'[x] = "ok" => account'[op[x].email] = x
      /\ response'[x] \in {"conflict", "error"} => account'[op[x].email] # x
  <2>1. CASE x = r
    BY <1>2, <2>1 DEF Does
  <2>2. CASE x # r
    BY <1>1, <1>4, <2>2, AccountKept DEF Framed, AccountsInv, SignupDecides
  <2> QED BY <2>1, <2>2
<1>6. ASSUME NEW q \in Requests, response'[x] = "ok", x \in before[q], response'[q] # None,
             Does(q, "login"), op[q].email = op[x].email, op[q].password = x
      PROVE  response'[q] = "ok"
  <2>1. x # r /\ response[x] = "ok" /\ account[op[x].email] = x
    BY <1>1, <1>6, Related DEF Framed, AccountsInv, SignupDecides
  <2>2. CASE q = r
    BY <1>3, <1>6, <2>1, <2>2 DEF Does
  <2>3. CASE q # r
    BY <1>1, <1>6, <2>1, <2>3 DEF Framed, AccountsInv, SignupDecides
  <2> QED BY <2>2, <2>3
<1> QED BY <1>5, <1>6

\* A request that begins with a revoked key gets no further than the lookup of it.
LEMMA RevocationKept ==
    ASSUME AccountsInv, NEW r \in Requests, Step(r)
    PROVE  Shut' /\ RevocationHolds'
<1>1. Framed(r)
  BY StepFrame
<1>2. revoked \subseteq revoked' /\ (RevokeKey(r) /\ response'[r] = "ok" => op[r].key \in revoked')
  <2>1. CASE RevokeKey(r)
    BY <2>1 DEF RevokeKey, Reply, AccountsInv, TypeOK
  <2>2. CASE ~RevokeKey(r)
    BY <2>2 DEF Step, SignupLookup, SignupCommit, Login, ByToken, ByKey, Touch, Get, CreateKey,
                LoadFeedback, SaveFeedback, tables
  <2> QED BY <2>1, <2>2
<1>3. op[r].do = "revoke" /\ response'[r] = "ok" => RevokeKey(r)
  <2> SUFFICES ASSUME op[r].do = "revoke", response'[r] = "ok", ~RevokeKey(r) PROVE FALSE
    OBVIOUS
  <2>1. ByToken(r) \/ ByKey(r) \/ Touch(r)
    BY DEF Step, SignupLookup, SignupCommit, Login, Get, CreateKey, LoadFeedback, SaveFeedback, At
  <2> QED BY <1>1, <2>1 DEF ByToken, ByKey, Touch, Reply, Goto, AccountsInv, TypeOK, Framed
<1>4. \A x \in Requests : Does(x, "revoke") /\ response'[x] = "ok" => op[x].key \in revoked'
  <2> SUFFICES ASSUME NEW x \in Requests, Does(x, "revoke"), response'[x] = "ok"
               PROVE  op[x].key \in revoked'
    OBVIOUS
  <2>1. CASE x = r
    BY <1>2, <1>3, <2>1 DEF Does
  <2>2. CASE x # r
    BY <1>1, <1>2, <2>2 DEF Framed, AccountsInv, Shut
  <2> QED BY <2>1, <2>2
<1>5. ASSUME NEW x \in Requests, NEW q \in Requests, Revoked(x, q)'
      PROVE  /\ stage'[q] \in {"begun", "done"}
             /\ who'[q] = None /\ response'[q] \in {None, "unauthorized"}
  <2>1. x # r /\ response[x] = "ok" /\ Revoked(x, q)
    BY <1>1, <1>5, Related DEF Revoked, Framed
  <2>2. /\ op[x].key \in revoked /\ stage[q] \in {"begun", "done"}
        /\ who[q] = None /\ response[q] \in {None, "unauthorized"}
    BY <2>1 DEF AccountsInv, Shut, RevocationHolds, Revoked
  <2>3. CASE q = r
    <3>1. /\ stage[r] = "begun" /\ op[r].do \notin {"signup", "login"}
          /\ op[r].by = <<"key", op[x].key>>
      BY <1>1, <2>1, <2>2, <2>3 DEF Framed, Revoked
    <3>2. ByKey(r)
      BY <3>1 DEF Step, SignupLookup, SignupCommit, Login, ByToken, Touch, Get, CreateKey, RevokeKey,
                  LoadFeedback, SaveFeedback, At, Calling
    <3>3. Reply(r, "unauthorized") /\ who' = who
      BY <2>2, <3>1, <3>2 DEF ByKey
    <3> QED BY <2>2, <2>3, <3>3 DEF Reply, AccountsInv, TypeOK
  <2>4. CASE q # r
    BY <1>1, <2>2, <2>4 DEF Framed
  <2> QED BY <2>3, <2>4
<1>6. Shut'
  BY <1>1, <1>4, <1>5, Related DEF Shut, Framed
<1>7. RevocationHolds'
  BY <1>5 DEF RevocationHolds, Revoked
<1> QED BY <1>6, <1>7

\* A rating is written over what was loaded; a change in between overlaps.
LEMMA RatingKept == ASSUME AccountsInv, NEW r \in Requests, Step(r) PROVE RatingStands'
<1>1. Framed(r)
  BY StepFrame
<1> SUFFICES ASSUME NEW x \in Requests, Does(x, "rate"), response'[x] = "ok"
             PROVE  \/ feedback'[op[x].answer] = op[x].value
                    \/ \E q \in Requests \ {x} : SameTarget(x, q) /\ q \notin before[x]
  BY <1>1, Related DEF RatingStands, Framed
<1>2. WellFormed(op[x]) /\ op[x].do = "rate" /\ op[x].answer \in Emails /\ op[x].value \in Rating
  BY DEF Does, Begun, AccountsInv, AtItsStep, WellFormed
<1>3. CASE x = r
  <2>1. SaveFeedback(r)
    <3>1. stage'[r] = "done"
      BY <1>1, <1>3 DEF Framed
    <3> QED
      BY <1>1, <1>2, <1>3, <3>1
      DEF Step, SignupLookup, SignupCommit, Login, ByToken, ByKey, Touch, Get, CreateKey, RevokeKey,
          LoadFeedback, At, Reply, Goto, Framed, AccountsInv, TypeOK
  <2>2. \/ loaded[r] = feedback[op[r].answer]
        \/ \E q \in Requests : Overlap(r, q)
    BY <1>2, <1>3, <2>1 DEF SaveFeedback, At, AccountsInv, Fresh
  <2>3. CASE loaded[r] = feedback[op[r].answer]
    <3>1. loaded[r] # None => Merged(feedback[op[r].answer], loaded[r], op[r].value) = op[r].value
      <4> SUFFICES ASSUME loaded[r] # None
                   PROVE  Merged(loaded[r], loaded[r], op[r].value) = op[r].value
        BY <2>3
      <4>1. loaded[r] \in Rating
        BY DEF AccountsInv, TypeOK
      <4> QED BY <1>2, <1>3, <4>1 DEF Merged, Rating
    <3> QED BY <1>2, <1>3, <2>1, <2>3, <3>1 DEF SaveFeedback, AccountsInv, TypeOK
  <2>4. CASE \E q \in Requests : Overlap(r, q)
    BY <1>3, <2>4 DEF Overlap
  <2> QED BY <2>2, <2>3, <2>4
<1>4. CASE x # r
  <2>1. CASE SaveFeedback(r) /\ op[r].answer = op[x].answer
    BY <1>1, <1>2, <1>4, <2>1, Related
    DEF SaveFeedback, At, SameTarget, Does, Begun, Framed
  <2>2. CASE ~(SaveFeedback(r) /\ op[r].answer = op[x].answer)
    <3>1. feedback'[op[x].answer] = feedback[op[x].answer]
      <4>1. CASE SaveFeedback(r)
        BY <1>2, <2>2, <4>1 DEF SaveFeedback, AccountsInv, TypeOK
      <4>2. CASE ~SaveFeedback(r)
        BY <4>2 DEF Step, SignupLookup, SignupCommit, Login, ByToken, ByKey, Touch, Get, CreateKey,
                    RevokeKey, LoadFeedback, tables
      <4> QED BY <4>1, <4>2
    <3> QED BY <1>1, <1>4, <3>1 DEF Framed, AccountsInv, RatingStands
  <2> QED BY <2>1, <2>2
<1> QED BY <1>3, <1>4

\* Only the unique indexes raise, and they do when what was looked up is no longer so.
LEMMA ErrorsKept == ASSUME AccountsInv, NEW r \in Requests, Step(r) PROVE ErrorsNeedARace'
<1>1. Framed(r)
  BY StepFrame
<1> SUFFICES ASSUME NEW x \in Requests, response'[x] = "error"
             PROVE  \E q \in Requests \ {x} :
                        SameTarget(x, q) /\ q \notin before[x] /\ x \notin before[q]
  BY <1>1, Related DEF ErrorsNeedARace, Framed
<1>2. CASE x = r
  <2>1. \/ SignupCommit(r) /\ account[op[r].email] # None
        \/ SaveFeedback(r) /\ loaded[r] # feedback[op[r].answer]
    BY <1>1, <1>2
    DEF Step, SignupLookup, SignupCommit, Login, ByToken, ByKey, Touch, Get, CreateKey, RevokeKey,
        LoadFeedback, SaveFeedback, Reply, Goto, Framed, AccountsInv, TypeOK
  <2>2. stage[r] = "write" /\ (SignupCommit(r) <=> op[r].do = "signup")
    BY <2>1 DEF SignupCommit, SaveFeedback, At
  <2>3. \E q \in Requests : Overlap(r, q)
    BY <2>1, <2>2 DEF AccountsInv, Fresh, SignupCommit, SaveFeedback, At
  <2> QED BY <1>2, <2>3 DEF Overlap
<1>3. CASE x # r
  BY <1>1, <1>3 DEF Framed, AccountsInv, ErrorsNeedARace
<1> QED BY <1>2, <1>3

-----------------------------------------------------------------------------
LEMMA NextAccounts == AccountsInv /\ [Next]_vars => AccountsInv'
<1> SUFFICES ASSUME AccountsInv, [Next]_vars PROVE AccountsInv'
  OBVIOUS
<1>1. CASE UNCHANGED vars
  BY <1>1
  DEF vars, tables, sessions, AccountsInv, TypeOK, AtItsStep, Fresh, Made, Shut, SignupDecides,
      RevocationHolds, RatingStands, ErrorsNeedARace, Overlap, SameTarget, Does, Begun, Revoked
<1>2. ASSUME NEW r \in Requests, Begin(r) PROVE AccountsInv'
  BY <1>2, BeginStep
<1>3. ASSUME NEW r \in Requests, Step(r) PROVE AccountsInv'
  BY <1>3, StepTypes, AtItsStepKept, FreshKept, MadeKept, SignupKept, RevocationKept, RatingKept,
     ErrorsKept DEF AccountsInv
<1> QED BY <1>1, <1>2, <1>3 DEF Next, Step

\* The invariant of accounts, keys and feedback.
THEOREM AccountsInvariance == Spec => []AccountsInv
<1> QED BY InitAccounts, NextAccounts, PTL DEF Spec

\* Every variable keeps its type: a rating in particular is a whole row.
THEOREM TypeCorrect == Spec => []TypeOK
<1>1. AccountsInv => TypeOK
  BY DEF AccountsInv
<1> QED BY <1>1, AccountsInvariance, PTL

\* A signup that succeeded has the account and can log in; one that was refused has not.
THEOREM SignupsDecide == Spec => []SignupDecides
<1>1. AccountsInv => SignupDecides
  BY DEF AccountsInv
<1> QED BY <1>1, AccountsInvariance, PTL

\* A revocation that was answered shuts out every request that begins with the key.
THEOREM RevocationsHold == Spec => []RevocationHolds
<1>1. AccountsInv => RevocationHolds
  BY DEF AccountsInv
<1> QED BY <1>1, AccountsInvariance, PTL

\* An acknowledged rating stands unless another one overlaps or follows it.
THEOREM RatingsStand == Spec => []RatingStands
<1>1. AccountsInv => RatingStands
  BY DEF AccountsInv
<1> QED BY <1>1, AccountsInvariance, PTL

\* An unexpected error needs two requests on one row at the same time.
THEOREM ErrorsAreRaces == Spec => []ErrorsNeedARace
<1>1. AccountsInv => ErrorsNeedARace
  BY DEF AccountsInv
<1> QED BY <1>1, AccountsInvariance, PTL
=============================================================================
