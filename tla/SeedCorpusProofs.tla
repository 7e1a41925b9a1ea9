--------------------------- MODULE SeedCorpusProofs ---------------------------
(***************************************************************************)
(* Theorems about the programs that fill the shared corpora, for any       *)
(* number of them, of files and of interruptions.                          *)
(*                                                                         *)
(* SeedInv adds to the properties that processes at work have met          *)
(* (Together), that a process has inserted nothing before its loop         *)
(* (Unseeded), and what it knows when it is about to insert or to mark a   *)
(* document (Looked, Indexed).  HealInv says how far a script that runs    *)
(* alone has got, RestInv who still owes a corpus a file.                  *)
(***************************************************************************)
EXTENDS SeedCorpus, TLAPS

Together == \A p, q \in Procs : p # q /\ Active(p) /\ Active(q) => {p, q} \in overlap

Unseeded ==
    \A p \in Procs : pc[p] \in {"start", "create", "enter", "clean", "drop"} =>
        \A f \in Files : status[<<p, f>>] = "absent"

\* The file was not in the corpus, but for a process at work at the same time.
Looked ==
    \A p, q \in Procs :
        /\ p # q /\ pc[p] = "insert" /\ home[p] = home[q]
        /\ status[<<q, fixture[p]>>] # "absent"
        => {p, q} \in overlap

Indexed ==
    \A p \in Procs : pc[p] = "ready" /\ status[Doc(p)] # "absent" =>
        Doc(p) \in rows /\ Doc(p) \in points

SeedInv ==
    /\ TypeOK
    /\ Together /\ Unseeded /\ Looked /\ Indexed
    /\ DuplicatesOverlap /\ ReadyIsSearchable

USE SeedAssumption

\* ensure_collection, by one of its requests.
Ensure(p) == CheckCollection(p) \/ CreateCollection(p) \/ CreateConflict(p)

\* The steps that leave documents, chunk rows and points alone.
Idle(p) ==
    \/ FindAccount(p) \/ Provision(p) \/ ProvisionConflict(p) \/ Enter(p)
    \/ SelectIncomplete(p) \/ Look(p) \/ DocumentGone(p) \/ Ensure(p)

\* Nothing here depends on the collection but where a process goes.
Rest == <<kind, local, demo, evals, status, rows, points, overlap, failures>>

\* It moves its process on, or ends it by a conflict, and touches the collection only.
LEMMA Ensured ==
    TypeOK => \A p \in Procs : Ensure(p) =>
        /\ pc[p] \in {"index", "make"} /\ pc'[p] \in {"make", "upsert", "conflict"}
        /\ \A q \in Procs : q # p => pc'[q] = pc[q]
        /\ pc' \in [Procs -> Steps] /\ collection' \in BOOLEAN
        /\ UNCHANGED <<kind, home, fixture, doomed, demo, evals, status, rows, points, overlap,
                        failures>>
<1> SUFFICES ASSUME TypeOK, NEW p \in Procs, Ensure(p)
             PROVE  /\ pc[p] \in {"index", "make"} /\ pc'[p] \in {"make", "upsert", "conflict"}
                    /\ \A q \in Procs : q # p => pc'[q] = pc[q]
                    /\ pc' \in [Procs -> Steps] /\ collection' \in BOOLEAN
                    /\ UNCHANGED <<kind, home, fixture, doomed, demo, evals, status, rows, points,
                                    overlap, failures>>
  OBVIOUS
<1>1. CASE CheckCollection(p)
  BY <1>1 DEF TypeOK, CheckCollection, Goto, Steps, Ended, store
<1>2. CASE CreateCollection(p)
  BY <1>2 DEF TypeOK, CreateCollection, Goto, Steps, Ended
<1>3. CASE CreateConflict(p)
  BY <1>3 DEF TypeOK, CreateConflict, Goto, Steps, Ended, store
<1> QED BY <1>1, <1>2, <1>3 DEF Ensure

LEMMA InitSeed == Init => SeedInv
<1> SUFFICES ASSUME Init PROVE SeedInv
  OBVIOUS
<1>1. \A p \in Procs, f \in Files : <<p, f>> \in Docs
  BY DEF Docs
<1>2. 1 \in Files
  BY DEF Files
<1>3. TypeOK
  BY <1>2 DEF Init, TypeOK, Steps
<1> QED
  BY <1>1, <1>3
  DEF Init, SeedInv, Together, Unseeded, Looked, Indexed, DuplicatesOverlap, ReadyIsSearchable,
      Active, Ended

LEMMA SeedTypes == TypeOK /\ Next => TypeOK'
<1> SUFFICES ASSUME TypeOK, NEW p \in Procs,
                    \/ Idle(p) \/ Drop(p) \/ Insert(p) \/ Index(p) \/ MarkReady(p) \/ Interrupt(p)
             PROVE  TypeOK'
  BY DEF Next, Idle, Ensure, WorkerCreates, TypeOK, local
<1>1. \A step \in Steps : Goto(p, step) => pc' \in [Procs -> Steps]
  BY DEF TypeOK, Goto
<1>2. {"done", "failed", "interrupted", "create", "enter", "clean", "drop", "seed", "insert", "index", "ready"}
          \subseteq Steps
  BY DEF Steps, Ended
<1>3. AfterAccount(p) \in {"enter", "clean", "seed"}
  BY DEF TypeOK, Kinds, AfterAccount
<1>4. Advance(p) => pc' \in [Procs -> Steps] /\ fixture' \in [Procs -> Files]
  BY <1>1, <1>2 DEF Advance, TypeOK, Files
<1>5. Doc(p) \in Docs
  BY DEF TypeOK, Doc, Docs
<1>6. CASE FindAccount(p)
  <2>1. overlap' \subseteq SUBSET Procs
    BY <1>6 DEF TypeOK, FindAccount
  <2>2. pc' \in [Procs -> Steps]
    BY <1>1, <1>2, <1>3, <1>6 DEF FindAccount
  <2>3. home' \in [Procs -> Procs \cup {None}]
    BY <1>6 DEF TypeOK, FindAccount, Accounts
  <2> QED BY <1>6, <2>1, <2>2, <2>3 DEF TypeOK, FindAccount, store
<1>7. CASE Provision(p)
  BY <1>1, <1>2, <1>3, <1>7 DEF TypeOK, Provision
<1>8. CASE ProvisionConflict(p) \/ Enter(p) \/ DocumentGone(p)
  BY <1>1, <1>2, <1>8 DEF TypeOK, ProvisionConflict, Enter, DocumentGone, store
<1>9. CASE SelectIncomplete(p)
  BY <1>1, <1>2, <1>9 DEF TypeOK, SelectIncomplete, DocsOf, store
<1>10. CASE Look(p)
  BY <1>1, <1>2, <1>4, <1>10 DEF TypeOK, Look, store
<1>11. CASE Drop(p)
  BY <1>1, <1>2, <1>11 DEF TypeOK, Drop
<1>12. CASE Insert(p)
  BY <1>1, <1>2, <1>5, <1>12 DEF TypeOK, Insert
<1>13. CASE Index(p)
  BY <1>1, <1>2, <1>5, <1>13 DEF TypeOK, Index
<1>14. CASE MarkReady(p)
  BY <1>4, <1>5, <1>14 DEF TypeOK, MarkReady
<1>15. CASE Interrupt(p)
  BY <1>1, <1>2, <1>5, <1>15 DEF TypeOK, Interrupt
<1>16. CASE Ensure(p)
  BY <1>16, Ensured DEF TypeOK
<1> QED
  BY <1>6, <1>7, <1>8, <1>9, <1>10, <1>11, <1>12, <1>13, <1>14, <1>15, <1>16 DEF Idle

\* A step concerns one process; a document is only ever inserted by its own.
LEMMA OneProcess ==
    ASSUME SeedInv, NEW p \in Procs,
           \/ Idle(p) \/ Drop(p) \/ Insert(p) \/ Index(p) \/ MarkReady(p) \/ Interrupt(p)
    PROVE  /\ pc[p] \notin Ended /\ overlap \subseteq overlap'
           /\ pc'[p] # "start"
           /\ \A q \in Procs : q # p =>
                /\ pc'[q] = pc[q] /\ home'[q] = home[q] /\ fixture'[q] = fixture[q]
                /\ \A f \in Files : status'[<<q, f>>] # "absent" => status[<<q, f>>] # "absent"
           /\ home'[p] = home[p] \/ pc[p] \in {"start", "create"}
           /\ pc[p] = "start" => \A q \in Procs : Active(q) => {p, q} \in overlap'
<1> USE DEF Goto
<1>a. /\ pc \in [Procs -> Steps] /\ home \in [Procs -> Procs \cup {None}]
      /\ fixture \in [Procs -> Files] /\ status \in [Docs -> {"absent", "pending", "ready"}]
      /\ \A q \in Procs, f \in Files : <<q, f>> \in Docs
      /\ Doc(p) = <<p, fixture[p]>>
  BY DEF SeedInv, TypeOK, Docs, Doc
<1>1. CASE Idle(p)
  <2>1. status' = status
    BY <1>1, Ensured DEF Idle, FindAccount, Provision, ProvisionConflict, Enter, SelectIncomplete, Look,
                DocumentGone, store, SeedInv
  <2>2. CASE FindAccount(p) \/ Provision(p)
    BY <1>a, <2>1, <2>2 DEF FindAccount, Provision, AfterAccount, Ended, SeedInv, TypeOK, Kinds
  <2>3. CASE ProvisionConflict(p) \/ Enter(p) \/ SelectIncomplete(p) \/ Look(p) \/ DocumentGone(p)
    BY <1>a, <2>1, <2>3 DEF ProvisionConflict, Enter, SelectIncomplete, Look, Advance, DocumentGone, Ended
  <2>4. CASE Ensure(p)
    BY <1>a, <2>4, Ensured DEF SeedInv, Ended
  <2> QED BY <1>1, <2>2, <2>3, <2>4 DEF Idle
<1>2. CASE Drop(p)
  BY <1>a, <1>2 DEF Drop, Ended
<1>3. CASE Insert(p) \/ Index(p)
  BY <1>a, <1>3 DEF Insert, Index, Ended
<1>4. CASE MarkReady(p)
  BY <1>a, <1>4 DEF MarkReady, Advance, Ended
<1>5. CASE Interrupt(p)
  BY <1>a, <1>5 DEF Interrupt, Active, Ended
<1> QED BY <1>1, <1>2, <1>3, <1>4, <1>5

\* What a step does to documents, rows and points.
LEMMA Documents ==
    ASSUME SeedInv, NEW p \in Procs,
           \/ Idle(p) \/ Drop(p) \/ Insert(p) \/ Index(p) \/ MarkReady(p) \/ Interrupt(p)
    PROVE  /\ points \subseteq points'
           /\ \A d \in Docs : d \in rows /\ status'[d] # "absent" => d \in rows'
           /\ \A d \in Docs : status'[d] # "absent" /\ status[d] = "absent" =>
                 Insert(p) /\ d = Doc(p) /\ status'[d] = "pending"
           /\ \A d \in Docs : status'[d] = "ready" /\ status[d] # "ready" => MarkReady(p) /\ d = Doc(p)
<1>a. status \in [Docs -> {"absent", "pending", "ready"}] /\ Doc(p) \in Docs
  BY DEF SeedInv, TypeOK, Doc, Docs
<1>1. CASE Idle(p) \/ Interrupt(p)
  BY <1>1, Ensured DEF Idle, FindAccount, Provision, ProvisionConflict, Enter, SelectIncomplete, Look,
              DocumentGone, Interrupt, store, SeedInv
<1>2. CASE Drop(p)
  BY <1>a, <1>2 DEF Drop
<1>3. CASE Insert(p)
  BY <1>a, <1>3 DEF Insert
<1>4. CASE Index(p)
  BY <1>a, <1>4 DEF Index
<1>5. CASE MarkReady(p)
  BY <1>a, <1>5 DEF MarkReady
<1> QED BY <1>1, <1>2, <1>3, <1>4, <1>5

LEMMA NextSeed == SeedInv /\ [Next]_vars => SeedInv'
<1> SUFFICES ASSUME SeedInv, [Next]_vars PROVE SeedInv'
  OBVIOUS
<1>1. CASE UNCHANGED vars \/ WorkerCreates
  <2>1. UNCHANGED Rest /\ collection' \in BOOLEAN
    BY <1>1 DEF vars, local, store, Rest, WorkerCreates, SeedInv, TypeOK
  <2> QED BY <2>1
  DEF Rest, local, SeedInv, TypeOK, Together, Unseeded, Looked, Indexed, DuplicatesOverlap,
      ReadyIsSearchable, Active, Doc
<1>2. CASE Next /\ ~ WorkerCreates
  <2>0. PICK p \in Procs :
          \/ Idle(p) \/ Drop(p) \/ Insert(p) \/ Index(p) \/ MarkReady(p) \/ Interrupt(p)
    BY <1>2 DEF Next, Idle, Ensure
  <2>1. TypeOK'
    BY <1>2, SeedTypes DEF SeedInv
  <2>a. /\ pc[p] \notin Ended /\ overlap \subseteq overlap'
        /\ pc'[p] # "start"
        /\ \A q \in Procs : q # p =>
             /\ pc'[q] = pc[q] /\ home'[q] = home[q] /\ fixture'[q] = fixture[q]
             /\ \A f \in Files : status'[<<q, f>>] # "absent" => status[<<q, f>>] # "absent"
        /\ home'[p] = home[p] \/ pc[p] \in {"start", "create"}
        /\ pc[p] = "start" => \A q \in Procs : Active(q) => {p, q} \in overlap'
    BY <2>0, OneProcess
  <2>b. /\ points \subseteq points'
        /\ \A d \in Docs : d \in rows /\ status'[d] # "absent" => d \in rows'
        /\ \A d \in Docs : status'[d] # "absent" /\ status[d] = "absent" =>
              Insert(p) /\ d = Doc(p) /\ status'[d] = "pending"
        /\ \A d \in Docs : status'[d] = "ready" /\ status[d] # "ready" => MarkReady(p) /\ d = Doc(p)
    BY <2>0, Documents
  <2>c. \A q \in Procs, f \in Files : <<q, f>> \in Docs
    BY DEF Docs
  <2>d. \A q \in Procs : fixture[q] \in Files /\ Doc(q) \in Docs /\ Doc(q) = <<q, fixture[q]>>
    BY <2>c DEF SeedInv, TypeOK, Doc
  <2>2. Together'
    BY <2>a DEF SeedInv, Together, Active
  <2>3. Unseeded'
    <3>1. pc'[p] \in {"start", "create", "enter", "clean", "drop"} =>
            pc[p] \in {"start", "create", "enter", "clean", "drop"} /\ status' = status
      BY <2>0, <2>a, Ensured
      DEF Idle, FindAccount, Provision, ProvisionConflict, Enter, SelectIncomplete, Look, Advance,
          DocumentGone, Drop, Insert, Index, MarkReady, Interrupt, Goto, store, SeedInv, TypeOK
    <3> QED BY <2>a, <3>1 DEF SeedInv, Unseeded
  <2>4. Looked'
    <3> SUFFICES ASSUME NEW a \in Procs, NEW b \in Procs, a # b, pc'[a] = "insert",
                        home'[a] = home'[b], status'[<<b, fixture'[a]>>] # "absent"
                 PROVE  {a, b} \in overlap'
      BY DEF Looked
    <3>1. CASE a = p /\ pc[p] # "insert"
      <4>1. Look(p) /\ Existing(p) = {} /\ fixture' = fixture /\ home' = home /\ status' = status
        BY <2>0, <3>1, Ensured
        DEF Idle, FindAccount, AfterAccount, Provision, ProvisionConflict, Enter, SelectIncomplete,
            Look, Advance, DocumentGone, Drop, Insert, Index, MarkReady, Interrupt, Goto, store,
            SeedInv, TypeOK, Kinds
      <4>2. <<b, fixture[p]>> \in Existing(p)
        BY <2>c, <2>d, <3>1, <4>1 DEF Existing, DocsOf
      <4> QED BY <4>1, <4>2
    <3>2. CASE a = p /\ pc[p] = "insert"
      BY <2>0, <3>2, Ensured
      DEF Idle, FindAccount, Provision, ProvisionConflict, Enter, SelectIncomplete, Look, DocumentGone,
          Drop, Insert, Index, MarkReady, Interrupt, Goto, SeedInv, TypeOK
    <3>3. CASE a # p /\ status[<<b, fixture[a]>>] # "absent"
      <4>1. home[a] = home[b]
        BY <2>a, <2>d, <3>3 DEF SeedInv, Unseeded
      <4> QED BY <2>a, <3>3, <4>1 DEF SeedInv, Looked
    <3>4. CASE a # p /\ status[<<b, fixture[a]>>] = "absent"
      <4>1. b = p /\ Insert(p)
        BY <2>a, <2>b, <2>c, <2>d, <3>4
      <4>2. Active(a) /\ Active(b)
        BY <2>a, <3>4, <4>1 DEF Insert, Active, Ended
      <4> QED BY <2>a, <4>2 DEF SeedInv, Together
    <3> QED BY <3>1, <3>2, <3>3, <3>4
  <2>5. Indexed'
    <3> SUFFICES ASSUME NEW q \in Procs, pc'[q] = "ready",
                        status'[<<q, fixture'[q]>>] # "absent"
                 PROVE  <<q, fixture'[q]>> \in rows' /\ <<q, fixture'[q]>> \in points'
      BY DEF Indexed, Doc
    <3>1. CASE q = p
      <4>1. Index(p)
        BY <2>0, <3>1, Ensured
        DEF Idle, FindAccount, AfterAccount, Provision, ProvisionConflict, Enter, SelectIncomplete,
            Look, Advance, DocumentGone, Drop, Insert, Index, MarkReady, Interrupt, Goto,
            SeedInv, TypeOK, Kinds
      <4> QED BY <2>d, <3>1, <4>1 DEF Index
    <3>2. CASE q # p
      <4>1. pc[q] = "ready" /\ fixture'[q] = fixture[q] /\ status[Doc(q)] # "absent"
        BY <2>a, <2>d, <3>2
      <4> QED BY <2>b, <2>d, <4>1 DEF SeedInv, Indexed
    <3> QED BY <3>1, <3>2
  <2>6. DuplicatesOverlap'
    <3> SUFFICES ASSUME NEW a \in Procs, NEW b \in Procs, NEW f \in Files, a # b,
                        home'[a] = home'[b],
                        status'[<<a, f>>] # "absent", status'[<<b, f>>] # "absent"
                 PROVE  {a, b} \in overlap'
      BY DEF DuplicatesOverlap
    <3>1. CASE status[<<a, f>>] # "absent" /\ status[<<b, f>>] # "absent"
      <4>1. home[a] = home[b]
        BY <2>a, <3>1 DEF SeedInv, Unseeded
      <4> QED BY <2>a, <3>1, <4>1 DEF SeedInv, DuplicatesOverlap
    <3>2. CASE status[<<a, f>>] = "absent"
      <4>1. a = p /\ Insert(p) /\ f = fixture[p]
        BY <2>b, <2>c, <2>d, <3>2
      <4>2. pc[p] = "insert" /\ home' = home /\ status[<<b, f>>] # "absent"
        BY <2>a, <4>1 DEF Insert
      <4> QED BY <2>a, <4>1, <4>2 DEF SeedInv, Looked
    <3>3. CASE status[<<b, f>>] = "absent"
      <4>1. b = p /\ Insert(p) /\ f = fixture[p]
        BY <2>b, <2>c, <2>d, <3>3
      <4>2. pc[p] = "insert" /\ home' = home /\ status[<<a, f>>] # "absent"
        BY <2>a, <4>1 DEF Insert
      <4>3. {b, a} \in overlap
        BY <4>1, <4>2 DEF SeedInv, Looked
      <4> QED BY <2>a, <4>3
    <3> QED BY <3>1, <3>2, <3>3
  <2>7. ReadyIsSearchable'
    <3> SUFFICES ASSUME NEW d \in Docs, status'[d] = "ready" PROVE d \in rows' /\ d \in points'
      BY DEF ReadyIsSearchable, Docs
    <3>1. CASE status[d] = "ready"
      BY <2>b, <3>1 DEF SeedInv, ReadyIsSearchable
    <3>2. CASE status[d] # "ready"
      <4>1. MarkReady(p) /\ d = Doc(p)
        BY <2>b, <3>2
      <4> QED BY <2>b, <4>1 DEF MarkReady, SeedInv, Indexed
    <3> QED BY <3>1, <3>2
  <2> QED BY <2>1, <2>2, <2>3, <2>4, <2>5, <2>6, <2>7 DEF SeedInv
<1> QED BY <1>1, <1>2

\* The invariant of the programs that fill the corpora.
THEOREM SeedInvariance == Spec => []SeedInv
<1> QED BY InitSeed, NextSeed, PTL DEF Spec

\* Every variable keeps its type.
THEOREM TypeCorrect == Spec => []TypeOK
<1>1. SeedInv => TypeOK
  BY DEF SeedInv
<1> QED BY <1>1, SeedInvariance, PTL

\* A document shown as READY has its chunk rows and its points.
THEOREM ReadyMeansSearchable == Spec => []ReadyIsSearchable
<1>1. SeedInv => ReadyIsSearchable
  BY DEF SeedInv
<1> QED BY <1>1, SeedInvariance, PTL

\* A file is doubled only by processes that ran at the same time.
THEOREM DuplicatesNeedOverlap == Spec => []DuplicatesOverlap
<1>1. SeedInv => DuplicatesOverlap
  BY DEF SeedInv
<1> QED BY <1>1, SeedInvariance, PTL
-----------------------------------------------------------------------------
(* Whose a corpus is.                                                          *)

Setup == {"start", "create", "enter", "clean", "drop"}

\* A process has the tenant of its program, from its account on, and the first file
\* until its loop.
Homes ==
    /\ \A p \in Procs :
        /\ home[p] # None => IF kind[p] = "harness" THEN home[p] \in evals ELSE home[p] = demo
        /\ pc[p] \in {"start", "create"} => home[p] = None
        /\ pc[p] \notin {"start", "create", "failed", "interrupted"} => home[p] # None
        /\ pc[p] \in Setup => fixture[p] = 1
        /\ pc[p] = "enter" => kind[p] = "visitor"
        /\ pc[p] \in {"clean", "drop"} => kind[p] = "script"
    /\ \A t \in evals : kind[t] = "harness"
    /\ demo # None => kind[demo] # "harness"

\* What a script is about to delete is of its own workspace.
Doomed == \A p \in Procs : pc[p] = "drop" => \A d \in doomed[p] : home[d[1]] = home[p]

-----------------------------------------------------------------------------
(* A script that runs alone.                                                   *)

\* Every document of the workspace but those in S is READY.
ReadyBut(S) == \A d \in DocsOf(demo) : d \in S \/ status[d] = "ready"

\* Every file before n has a document.
HasBefore(n) == \A f \in Files : f < n => \E d \in DocsOf(demo) : d[2] = f

\* How far it is.
Progress(p) ==
    /\ pc[p] = "drop" => ReadyBut(doomed[p])
    /\ pc[p] \in {"seed", "insert"} => ReadyBut({}) /\ HasBefore(fixture[p])
    /\ pc[p] \in {"index", "make", "upsert", "ready"} => ReadyBut({Doc(p)}) /\ HasBefore(fixture[p])

\* A complete workspace stays complete: whoever is at work in it finds nothing to do.
AtPeace ==
    /\ demo # None /\ Complete(demo)
    /\ \A q \in Procs : Active(q) /\ kind[q] # "harness" =>
        /\ pc[q] \in {"enter", "clean", "drop", "seed"}
        /\ pc[q] = "drop" => doomed[q] = {}

Healing ==
    \A p \in Procs : kind[p] = "script" /\ Alone(p) =>
        /\ Active(p) => Progress(p)
        /\ pc[p] = "done" => AtPeace

HealInv == SeedInv /\ Homes /\ Doomed /\ Healing

-----------------------------------------------------------------------------
(* Who still owes a corpus a file, or was stopped while he did.                *)

Tenants == evals \cup ({demo} \ {None})

Owes(p, f) ==
    \/ pc[p] \in {"clean", "drop"}
    \/ pc[p] \in {"seed", "insert", "conflict", "interrupted"} /\ fixture[p] <= f
    \/ /\ pc[p] \in {"index", "make", "upsert", "ready"} /\ status[Doc(p)] # "absent"
       /\ fixture[p] <= f

Covered(t, f) ==
    \/ \E d \in DocsOf(t) : d[2] = f
    \/ \E p \in Procs : home[p] = t /\ Owes(p, f)

\* Nobody has got further than the door.
Fresh(t) ==
    /\ \E p \in Procs : home[p] = t
    /\ \A p \in Procs : home[p] = t => pc[p] = "enter"

\* A document that is not READY is at its own process, or where that one was stopped.
InHand ==
    \A d \in Docs : status[d] = "pending" =>
        /\ pc[d[1]] \in {"index", "make", "upsert", "ready", "conflict", "interrupted"}
        /\ d = Doc(d[1])

Accounted == InHand /\ \A t \in Tenants : Fresh(t) \/ \A f \in Files : Covered(t, f)

RestInv == SeedInv /\ Homes /\ Doomed /\ Accounted

-----------------------------------------------------------------------------
Acts(p) == Idle(p) \/ Drop(p) \/ Insert(p) \/ Index(p) \/ MarkReady(p) \/ Interrupt(p)

\* The worker's step aside.
NextHere == \E p \in Procs : Acts(p)

LEMMA NextActs == Next => NextHere \/ WorkerCreates
  BY DEF Next, NextHere, Acts, Idle, Ensure

\* A step of p leaves the others where they are, and documents where they belong.
LEMMA Frame ==
    ASSUME SeedInv, NEW p \in Procs, Acts(p)
    PROVE  /\ pc[p] \notin Ended /\ kind' = kind /\ overlap \subseteq overlap'
           /\ \A q \in Procs : q # p => /\ pc'[q] = pc[q] /\ home'[q] = home[q]
                                        /\ fixture'[q] = fixture[q] /\ doomed'[q] = doomed[q]
           /\ home'[p] = home[p] \/ pc[p] \in {"start", "create"}
           /\ \A d \in Docs : status'[d] # "absent" => home'[d[1]] = home[d[1]]
           /\ \A t : \A d : d \in DocsOf(t)' <=> d \in Docs /\ status'[d] # "absent" /\ home[d[1]] = t
           /\ status' = status \/ Drop(p) \/ Insert(p) \/ MarkReady(p)
           /\ demo # None => demo' = demo
           /\ evals \subseteq evals'
<1> USE DEF Acts
<1>1. /\ pc[p] \notin Ended /\ overlap \subseteq overlap'
      /\ \A q \in Procs : q # p =>
           /\ pc'[q] = pc[q] /\ home'[q] = home[q] /\ fixture'[q] = fixture[q]
      /\ home'[p] = home[p] \/ pc[p] \in {"start", "create"}
  BY OneProcess
<1>2. kind' = kind /\ (demo # None => demo' = demo) /\ evals \subseteq evals'
  BY Ensured DEF SeedInv, Idle, FindAccount, Provision, ProvisionConflict, Enter, SelectIncomplete, Look, Advance,
         DocumentGone, Drop, Insert, Index, MarkReady, Interrupt, store
<1>3. \A q \in Procs : q # p => doomed'[q] = doomed[q]
  BY Ensured DEF Idle, FindAccount, Provision, ProvisionConflict, Enter, SelectIncomplete, Look, Advance,
         DocumentGone, Drop, Insert, Index, MarkReady, Interrupt, SeedInv, TypeOK
<1>4. status' = status \/ Drop(p) \/ Insert(p) \/ MarkReady(p)
  BY Ensured DEF SeedInv, Idle, FindAccount, Provision, ProvisionConflict, Enter, SelectIncomplete, Look,
         DocumentGone, Index, Interrupt, store
<1>5. \A d \in Docs : d[1] \in Procs /\ d[2] \in Files /\ d = <<d[1], d[2]>>
  BY DEF Docs
<1>6. ASSUME NEW d \in Docs, status'[d] # "absent" PROVE home'[d[1]] = home[d[1]]
  <2> SUFFICES ASSUME d[1] = p, pc[p] \in {"start", "create"} PROVE FALSE
    BY <1>1, <1>5
  <2>1. status' = status
    BY <1>4 DEF Drop, Insert, MarkReady
  <2>2. status[<<d[1], d[2]>>] = "absent"
    BY <1>5 DEF SeedInv, Unseeded
  <2> QED BY <1>5, <1>6, <2>1, <2>2
<1>7. \A t : \A d : d \in DocsOf(t)' <=> d \in Docs /\ status'[d] # "absent" /\ home[d[1]] = t
  BY <1>6 DEF DocsOf
<1> QED BY <1>1, <1>2, <1>3, <1>4, <1>6, <1>7

\* Where a process goes next.
LEMMA Moved ==
    ASSUME TypeOK, NEW p \in Procs, Acts(p)
    PROVE  /\ FindAccount(p) => pc'[p] = IF Accounts(p) = {} THEN "create" ELSE AfterAccount(p)
           /\ Provision(p) => pc'[p] = AfterAccount(p) /\ home'[p] = p
           /\ Enter(p) => pc'[p] = IF DocsOf(home[p]) # {} THEN "done" ELSE "seed"
           /\ SelectIncomplete(p) => /\ pc'[p] = "drop"
                                     /\ doomed'[p] = {d \in DocsOf(home[p]) : status[d] # "ready"}
           /\ Drop(p) => /\ pc'[p] = "seed"
                         /\ \A d \in Docs : status'[d] = IF d \in doomed[p] THEN "absent" ELSE status[d]
           /\ Insert(p) => /\ pc'[p] = "index"
                           /\ \A d \in Docs : status'[d] = IF d = Doc(p) THEN "pending" ELSE status[d]
           /\ Index(p) => pc'[p] = "ready"
           /\ MarkReady(p) => \A d \in Docs : status'[d] = IF d = Doc(p) THEN "ready" ELSE status[d]
           /\ MarkReady(p) \/ (Look(p) /\ Existing(p) # {}) =>
                 /\ pc'[p] = IF fixture[p] = N THEN "done" ELSE "seed"
                 /\ fixture'[p] = IF fixture[p] = N THEN N ELSE fixture[p] + 1
           /\ Look(p) /\ Existing(p) = {} => pc'[p] = "insert" /\ fixture'[p] = fixture[p]
           /\ ProvisionConflict(p) \/ DocumentGone(p) => pc'[p] = "failed"
           /\ Interrupt(p) => pc'[p] = "interrupted"
           /\ Ensure(p) => /\ pc[p] \in {"index", "make"}
                           /\ pc'[p] \in {"make", "upsert", "conflict"}
           /\ ~ MarkReady(p) /\ ~ Look(p) => fixture'[p] = fixture[p]
<1> USE DEF TypeOK, Goto, Advance
<1>1. Doc(p) \in Docs
  BY DEF Doc, Docs
<1>2. /\ FindAccount(p) => pc'[p] = IF Accounts(p) = {} THEN "create" ELSE AfterAccount(p)
      /\ Provision(p) => pc'[p] = AfterAccount(p) /\ home'[p] = p
  BY DEF FindAccount, Provision
<1>3. /\ Enter(p) => pc'[p] = IF DocsOf(home[p]) # {} THEN "done" ELSE "seed"
      /\ SelectIncomplete(p) => /\ pc'[p] = "drop"
                                /\ doomed'[p] = {d \in DocsOf(home[p]) : status[d] # "ready"}
  BY DEF Enter, SelectIncomplete
<1>4. /\ Drop(p) => /\ pc'[p] = "seed"
                    /\ \A d \in Docs : status'[d] = IF d \in doomed[p] THEN "absent" ELSE status[d]
      /\ Insert(p) => /\ pc'[p] = "index"
                      /\ \A d \in Docs : status'[d] = IF d = Doc(p) THEN "pending" ELSE status[d]
      /\ Index(p) => pc'[p] = "ready"
      /\ MarkReady(p) => \A d \in Docs : status'[d] = IF d = Doc(p) THEN "ready" ELSE status[d]
  BY <1>1 DEF Drop, Insert, Index, MarkReady
<1>5. /\ MarkReady(p) \/ (Look(p) /\ Existing(p) # {}) =>
            /\ pc'[p] = IF fixture[p] = N THEN "done" ELSE "seed"
            /\ fixture'[p] = IF fixture[p] = N THEN N ELSE fixture[p] + 1
      /\ Look(p) /\ Existing(p) = {} => pc'[p] = "insert" /\ fixture'[p] = fixture[p]
  BY DEF MarkReady, Look
<1>6. /\ ProvisionConflict(p) \/ DocumentGone(p) => pc'[p] = "failed"
      /\ Interrupt(p) => pc'[p] = "interrupted"
      /\ Ensure(p) => /\ pc[p] \in {"index", "make"}
                      /\ pc'[p] \in {"make", "upsert", "conflict"}
  BY Ensured DEF ProvisionConflict, DocumentGone, Interrupt
<1>7. ~ MarkReady(p) /\ ~ Look(p) => fixture'[p] = fixture[p]
  BY Ensured DEF Acts, Idle, FindAccount, Provision, ProvisionConflict, Enter, SelectIncomplete,
         DocumentGone, Drop, Insert, Index, Interrupt
<1> QED BY <1>2, <1>3, <1>4, <1>5, <1>6, <1>7

LEMMA HomesKept == SeedInv /\ Homes /\ Doomed /\ NextHere => Homes' /\ Doomed'
<1> SUFFICES ASSUME SeedInv, Homes, Doomed, NEW p \in Procs, Acts(p) PROVE Homes' /\ Doomed'
  BY DEF NextHere
<1>a. /\ pc \in [Procs -> Steps] /\ home \in [Procs -> Procs \cup {None}] /\ kind \in [Procs -> Kinds]
      /\ fixture \in [Procs -> Files] /\ TypeOK
  BY DEF SeedInv, TypeOK
<1>b. /\ pc[p] \notin Ended /\ kind' = kind
      /\ \A q \in Procs : q # p => /\ pc'[q] = pc[q] /\ home'[q] = home[q]
                                   /\ fixture'[q] = fixture[q] /\ doomed'[q] = doomed[q]
      /\ home'[p] = home[p] \/ pc[p] \in {"start", "create"}
      /\ demo # None => demo' = demo
      /\ evals \subseteq evals'
  BY Frame
<1>c. /\ FindAccount(p) => pc'[p] = IF Accounts(p) = {} THEN "create" ELSE AfterAccount(p)
      /\ Provision(p) => pc'[p] = AfterAccount(p) /\ home'[p] = p
      /\ Enter(p) => pc'[p] = IF DocsOf(home[p]) # {} THEN "done" ELSE "seed"
      /\ SelectIncomplete(p) => /\ pc'[p] = "drop"
                                /\ doomed'[p] = {d \in DocsOf(home[p]) : status[d] # "ready"}
      /\ Drop(p) => pc'[p] = "seed"
      /\ Insert(p) => pc'[p] = "index"
      /\ Index(p) => pc'[p] = "ready"
      /\ MarkReady(p) \/ (Look(p) /\ Existing(p) # {}) =>
            pc'[p] = IF fixture[p] = N THEN "done" ELSE "seed"
      /\ Look(p) /\ Existing(p) = {} => pc'[p] = "insert"
      /\ ProvisionConflict(p) \/ DocumentGone(p) => pc'[p] = "failed"
      /\ Interrupt(p) => pc'[p] = "interrupted"
      /\ Ensure(p) => pc[p] \in {"index", "make"} /\ pc'[p] \in {"make", "upsert", "conflict"}
      /\ ~ MarkReady(p) /\ ~ Look(p) => fixture'[p] = fixture[p]
  BY <1>a, Moved
<1>d. /\ AfterAccount(p) = "enter" => kind[p] = "visitor"
      /\ AfterAccount(p) = "clean" => kind[p] = "script"
      /\ AfterAccount(p) = "seed" => kind[p] = "harness"
      /\ AfterAccount(p) \in {"enter", "clean", "seed"}
  BY <1>a DEF AfterAccount, Kinds
\* The account.
<1>1. CASE FindAccount(p) \/ Provision(p)
  <2>1. /\ pc[p] \in {"start", "create"} /\ fixture'[p] = 1 /\ home[p] = None
        /\ pc'[p] \in {"create", "enter", "clean", "seed"}
        /\ pc'[p] = "create" => home'[p] = None
        /\ pc'[p] # "create" => pc'[p] = AfterAccount(p)
    BY <1>1, <1>c, <1>d DEF FindAccount, Provision, Homes, Setup
  <2>2. pc'[p] # "create" =>
            home'[p] # None /\ IF kind[p] = "harness" THEN home'[p] \in evals' ELSE home'[p] = demo'
    <3>1. CASE FindAccount(p)
      <4>1. demo' = demo /\ evals' = evals
        BY <3>1 DEF FindAccount, store
      <4>2. pc'[p] # "create" => \E t \in Accounts(p) : home' = [home EXCEPT ![p] = t]
        BY <3>1, <1>c DEF FindAccount
      <4>3. \A t \in Accounts(p) : t # None
        BY <1>a DEF Accounts, SeedInv, TypeOK
      <4> QED BY <1>a, <4>1, <4>2, <4>3 DEF Accounts
    <3>2. CASE Provision(p)
      BY <1>a, <3>2 DEF Provision
    <3> QED BY <1>1, <3>1, <3>2
  <2>3. /\ \A t \in evals' : kind[t] = "harness"
        /\ demo' # None => kind[demo'] # "harness"
    BY <1>1 DEF FindAccount, Provision, store, Homes
  <2>4. Homes'
    <3>1. ASSUME NEW q \in Procs
          PROVE  /\ home'[q] # None =>
                       IF kind[q] = "harness" THEN home'[q] \in evals' ELSE home'[q] = demo'
                 /\ pc'[q] \in {"start", "create"} => home'[q] = None
                 /\ pc'[q] \notin {"start", "create", "failed", "interrupted"} => home'[q] # None
                 /\ pc'[q] \in Setup => fixture'[q] = 1
                 /\ pc'[q] = "enter" => kind[q] = "visitor"
                 /\ pc'[q] \in {"clean", "drop"} => kind[q] = "script"
      <4>1. CASE q = p
        BY <1>d, <2>1, <2>2, <4>1
      <4>2. CASE q # p
        BY <1>b, <4>2 DEF Homes, SeedInv, TypeOK
      <4> QED BY <4>1, <4>2
    <3> QED BY <1>b, <2>3, <3>1 DEF Homes, Setup
  <2>5. Doomed'
    <3> SUFFICES ASSUME NEW q \in Procs, pc'[q] = "drop", NEW d \in doomed'[q]
                 PROVE  home'[d[1]] = home'[q]
      BY DEF Doomed
    <3>1. q # p
      BY <2>1
    <3>2. home[d[1]] = home[q] /\ home[q] # None
      BY <1>b, <3>1 DEF Doomed, Homes
    <3>3. d[1] # p
      BY <2>1, <3>2
    <3>4. d[1] \in Procs
      BY <1>b, <3>1 DEF SeedInv, TypeOK, Docs
    <3> QED BY <1>b, <3>1, <3>2, <3>3, <3>4
  <2> QED BY <2>4, <2>5
\* The rest.
<1>2. CASE ~FindAccount(p) /\ ~Provision(p)
  <2>1. /\ pc[p] \notin {"start"} /\ home' = home /\ demo' = demo /\ evals' = evals
    BY <1>a, <1>2, Ensured
    DEF Acts, Idle, ProvisionConflict, Enter, SelectIncomplete, Look, Advance, DocumentGone, Drop,
                Insert, Index, MarkReady, Interrupt, Active, store
  <2>2. /\ pc'[p] \notin {"start", "create", "enter", "clean"}
        /\ pc'[p] = "drop" => SelectIncomplete(p) /\ pc[p] = "clean" /\ fixture'[p] = fixture[p]
        /\ pc'[p] \notin {"failed", "interrupted"} =>
              pc[p] \notin {"start", "create", "failed", "interrupted"}
    BY <1>2, <1>c DEF Acts, Idle, ProvisionConflict, Enter, SelectIncomplete, Look, DocumentGone,
                Drop, Insert, Index, MarkReady, Interrupt
  <2>3. Homes'
    <3>1. ASSUME NEW q \in Procs
          PROVE  /\ home'[q] # None =>
                       IF kind[q] = "harness" THEN home'[q] \in evals' ELSE home'[q] = demo'
                 /\ pc'[q] \in {"start", "create"} => home'[q] = None
                 /\ pc'[q] \notin {"start", "create", "failed", "interrupted"} => home'[q] # None
                 /\ pc'[q] \in Setup => fixture'[q] = 1
                 /\ pc'[q] = "enter" => kind[q] = "visitor"
                 /\ pc'[q] \in {"clean", "drop"} => kind[q] = "script"
      <4>1. CASE q = p
        BY <2>1, <2>2, <4>1 DEF Homes, Setup
      <4>2. CASE q # p
        BY <1>b, <2>1, <4>2 DEF Homes
      <4> QED BY <4>1, <4>2
    <3> QED BY <1>b, <2>1, <3>1 DEF Homes, Setup
  <2>4. Doomed'
    <3> SUFFICES ASSUME NEW q \in Procs, pc'[q] = "drop", NEW d \in doomed'[q]
                 PROVE  home[d[1]] = home[q]
      BY <2>1 DEF Doomed
    <3>1. CASE q = p
      BY <1>c, <2>2, <3>1 DEF DocsOf
    <3>2. CASE q # p
      BY <1>b, <3>2 DEF Doomed
    <3> QED BY <3>1, <3>2
  <2> QED BY <2>3, <2>4
<1> QED BY <1>1, <1>2

\* A script that is alone is the only one at work.
LEMMA OnlyOne ==
    ASSUME SeedInv, NEW p \in Procs, Acts(p), NEW a \in Procs, a # p, Active(a)
    PROVE  ~ Alone(a)'
<1>1. {p, a} \in overlap'
  <2>1. pc[p] \notin Ended /\ overlap \subseteq overlap'
        /\ (pc[p] = "start" => \A q \in Procs : Active(q) => {p, q} \in overlap')
    BY OneProcess DEF Acts
  <2>2. pc[p] # "start" => Active(p)
    BY <2>1 DEF Active
  <2> QED BY <2>1, <2>2 DEF SeedInv, Together
<1>2. {p, a} = {a, p}
  OBVIOUS
<1> QED BY <1>1, <1>2 DEF Alone

\* Its own steps bring it on.
LEMMA ProgressMade ==
    ASSUME HealInv, NEW a \in Procs, Acts(a), kind[a] = "script", Active(a), Progress(a)
    PROVE  /\ Active(a)' => Progress(a)'
           /\ pc'[a] = "done" => demo' # None /\ Complete(demo)'
<1>a. /\ TypeOK /\ SeedInv /\ Homes /\ fixture[a] \in 1 .. N /\ N \in Nat
      /\ Doc(a) = <<a, fixture[a]>> /\ Doc(a) \in Docs /\ Doc(a)[1] = a /\ Doc(a)[2] = fixture[a]
      /\ status \in [Docs -> {"absent", "pending", "ready"}]
  BY DEF HealInv, SeedInv, TypeOK, Doc, Docs, Files
<1>b. /\ \A t : \A d : d \in DocsOf(t)' <=> d \in Docs /\ status'[d] # "absent" /\ home[d[1]] = t
      /\ \A t : \A d : d \in DocsOf(t) <=> d \in Docs /\ status[d] # "absent" /\ home[d[1]] = t
      /\ demo # None => demo' = demo
      /\ status' = status \/ Drop(a) \/ Insert(a) \/ MarkReady(a)
  BY <1>a, Frame DEF DocsOf
<1>c. pc[a] # "create" => home[a] = demo /\ demo # None
  BY <1>a DEF Homes, Active, Ended
\* Before the loop.
<1>1. CASE FindAccount(a) \/ Provision(a) \/ ProvisionConflict(a) \/ Enter(a) \/ DocumentGone(a) \/ Interrupt(a)
  <2>1. pc[a] # "start" /\ ~ Enter(a)
    BY <1>a DEF Active, Enter, Homes
  <2>2. Provision(a) => pc'[a] = "clean"
    BY <1>a, Moved DEF AfterAccount
  <2>3. ProvisionConflict(a) \/ DocumentGone(a) \/ Interrupt(a) => pc'[a] \in Ended \ {"done"}
    BY <1>a, Moved DEF Ended
  <2> QED BY <1>1, <2>1, <2>2, <2>3 DEF FindAccount, Progress, Active, Ended
<1>2. CASE SelectIncomplete(a)
  <2>1. /\ pc'[a] = "drop" /\ doomed'[a] = {d \in DocsOf(demo) : status[d] # "ready"}
        /\ pc[a] = "clean" /\ status' = status
    BY <1>2, <1>a, <1>c, Moved DEF SelectIncomplete, store
  <2> QED BY <1>b, <1>c, <2>1 DEF Progress, ReadyBut
<1>3. CASE Drop(a)
  <2>1. /\ pc'[a] = "seed" /\ pc[a] = "drop" /\ fixture'[a] = 1
        /\ \A d \in Docs : status'[d] = IF d \in doomed[a] THEN "absent" ELSE status[d]
    BY <1>3, <1>a, Moved DEF Drop, Homes, Setup
  <2>2. ReadyBut({})'
    BY <1>b, <1>c, <2>1 DEF Progress, ReadyBut
  <2>3. HasBefore(fixture[a])'
    BY <2>1 DEF HasBefore, Files
  <2> QED BY <2>1, <2>2, <2>3 DEF Progress
\* The loop.
<1>4. CASE (Look(a) /\ Existing(a) # {}) \/ MarkReady(a)
  <2>1. /\ pc[a] \in {"seed", "ready"}
        /\ pc'[a] = IF fixture[a] = N THEN "done" ELSE "seed"
        /\ fixture'[a] = IF fixture[a] = N THEN N ELSE fixture[a] + 1
        /\ Look(a) => status' = status /\ pc[a] = "seed"
        /\ MarkReady(a) => /\ \A d \in Docs : status'[d] = IF d = Doc(a) THEN "ready" ELSE status[d]
                           /\ status[Doc(a)] # "absent" /\ pc[a] = "ready"
    BY <1>4, <1>a, Moved DEF Look, MarkReady, store
  <2>2. demo' = demo /\ demo # None /\ home[a] = demo
    BY <1>b, <1>c, <2>1
  <2>3. ReadyBut({})'
    BY <1>4, <1>b, <2>1, <2>2 DEF Progress, ReadyBut
  <2>4. \A f \in Files : f <= fixture[a] => \E d \in DocsOf(demo)' : d[2] = f
    <3> SUFFICES ASSUME NEW f \in Files, f <= fixture[a] PROVE \E d \in DocsOf(demo)' : d[2] = f
      BY <2>2
    <3>1. CASE f < fixture[a]
      <4>1. PICK d \in DocsOf(demo) : d[2] = f
        BY <2>1, <3>1 DEF Progress, HasBefore
      <4>2. status'[d] # "absent"
        BY <1>4, <1>b, <2>1, <4>1
      <4> QED BY <1>b, <2>2, <4>1, <4>2
    <3>2. CASE f = fixture[a] /\ Look(a)
      <4>1. PICK d \in Existing(a) : TRUE
        BY <1>4, <3>2 DEF Look, MarkReady
      <4>2. d \in DocsOf(demo) /\ d[2] = f
        BY <2>2, <3>2, <4>1 DEF Existing
      <4> QED BY <1>b, <2>1, <2>2, <3>2, <4>2
    <3>3. CASE f = fixture[a] /\ MarkReady(a)
      <4>1. Doc(a) \in DocsOf(demo)'
        BY <1>a, <1>b, <2>1, <2>2, <3>3
      <4> QED BY <1>a, <3>3, <4>1
    <3>4. f < fixture[a] \/ f = fixture[a]
      BY <1>a DEF Files
    <3> QED BY <1>4, <3>1, <3>2, <3>3, <3>4
  <2>5. pc'[a] = "done" => Complete(demo)'
    <3> SUFFICES ASSUME pc'[a] = "done" PROVE Complete(demo)'
      OBVIOUS
    <3>1. fixture[a] = N
      BY <2>1
    <3>2. \A f \in Files : \E d \in DocsOf(demo)' : d[2] = f
      BY <2>4, <3>1, <1>a DEF Files
    <3>3. \A d \in DocsOf(demo)' : status'[d] = "ready"
      BY <2>2, <2>3 DEF ReadyBut
    <3> QED BY <2>2, <3>2, <3>3 DEF Complete
  <2>6. pc'[a] = "seed" => HasBefore(fixture[a])'
    <3>1. \A f \in Files : fixture[a] # N /\ f < fixture[a] + 1 => f <= fixture[a]
      BY <1>a DEF Files
    <3> QED BY <2>1, <2>2, <2>4, <3>1 DEF HasBefore
  <2> QED BY <2>1, <2>2, <2>3, <2>5, <2>6 DEF Progress
<1>5. CASE Look(a) /\ Existing(a) = {}
  <2>1. pc[a] = "seed" /\ pc'[a] = "insert" /\ fixture'[a] = fixture[a] /\ status' = status
    BY <1>5, <1>a, Moved DEF Look, store
  <2> QED BY <1>b, <1>c, <2>1 DEF Progress, ReadyBut, HasBefore
<1>6. CASE Insert(a)
  <2>1. /\ pc[a] = "insert" /\ pc'[a] = "index" /\ fixture'[a] = fixture[a]
        /\ \A d \in Docs : status'[d] = IF d = Doc(a) THEN "pending" ELSE status[d]
    BY <1>6, <1>a, Moved DEF Insert, Look, MarkReady
  <2>2. \A d \in DocsOf(demo) : d \in DocsOf(demo)'
    BY <1>b, <1>c, <2>1
  <2>3. HasBefore(fixture[a])'
    BY <1>b, <1>c, <2>1, <2>2 DEF Progress, HasBefore
  <2>4. Doc(a)' = Doc(a)
    BY <2>1 DEF Doc
  <2>5. ReadyBut({Doc(a)})'
    BY <1>b, <1>c, <2>1, <2>4 DEF Progress, ReadyBut
  <2> QED BY <2>1, <2>3, <2>5 DEF Progress
<1>7. CASE Index(a)
  <2>1. pc[a] = "upsert" /\ pc'[a] = "ready" /\ fixture'[a] = fixture[a] /\ status' = status
    BY <1>7, <1>a, Moved DEF Index
  <2> QED BY <1>b, <1>c, <2>1 DEF Progress, ReadyBut, HasBefore, Doc
<1>8. CASE Ensure(a)
  <2>1. /\ pc[a] \in {"index", "make"} /\ pc'[a] \in {"make", "upsert", "conflict"}
        /\ fixture'[a] = fixture[a] /\ status' = status
    BY <1>8, <1>a, Ensured
  <2> QED BY <1>b, <1>c, <2>1 DEF Progress, ReadyBut, HasBefore, Doc, Active, Ended
<1> QED BY <1>1, <1>2, <1>3, <1>4, <1>5, <1>6, <1>7, <1>8 DEF Acts, Idle

\* A complete workspace stays complete.
LEMMA PeaceKept ==
    ASSUME HealInv, AtPeace, NEW p \in Procs, Acts(p)
    PROVE  AtPeace'
<1>a. /\ TypeOK /\ SeedInv /\ Homes /\ fixture[p] \in 1 .. N /\ N \in Nat
      /\ Doc(p) = <<p, fixture[p]>> /\ Doc(p) \in Docs /\ Doc(p)[1] = p /\ 1 \in Files
      /\ status \in [Docs -> {"absent", "pending", "ready"}]
  BY DEF HealInv, SeedInv, TypeOK, Doc, Docs, Files
<1>b. /\ \A t : \A d : d \in DocsOf(t)' <=> d \in Docs /\ status'[d] # "absent" /\ home[d[1]] = t
      /\ \A t : \A d : d \in DocsOf(t) <=> d \in Docs /\ status[d] # "absent" /\ home[d[1]] = t
      /\ demo # None /\ demo' = demo
      /\ status' = status \/ Drop(p) \/ Insert(p) \/ MarkReady(p)
      /\ pc[p] \notin Ended /\ kind' = kind
      /\ \A q \in Procs : q # p => /\ pc'[q] = pc[q] /\ doomed'[q] = doomed[q]
  BY <1>a, Frame DEF DocsOf, AtPeace
<1>c. Complete(demo)
  BY DEF AtPeace
<1>d. kind[p] # "harness" /\ pc[p] \notin {"start"} =>
          /\ pc[p] \in {"enter", "clean", "drop", "seed"} /\ home[p] = demo
          /\ pc[p] = "drop" => doomed[p] = {}
  <2>1. kind[p] # "harness" /\ pc[p] # "start" =>
           pc[p] \in {"enter", "clean", "drop", "seed"} /\ (pc[p] = "drop" => doomed[p] = {})
    BY <1>b DEF AtPeace, Active
  <2> QED BY <1>a, <2>1 DEF Homes
\* The documents of the workspace.
<1>1. \A d \in DocsOf(demo) : status'[d] = "ready"
  <2> SUFFICES ASSUME NEW d \in DocsOf(demo) PROVE status'[d] = "ready"
    OBVIOUS
  <2>1. d \in Docs /\ status[d] = "ready" /\ home[d[1]] = demo
    BY <1>b, <1>c DEF Complete
  <2>2. CASE Drop(p)
    <3>1. pc[p] = "drop" /\ kind[p] = "script"
      BY <1>a, <2>2 DEF Drop, Homes
    <3>2. doomed[p] = {}
      BY <1>d, <3>1
    <3> QED BY <1>a, <2>1, <2>2, <3>2, Moved
  <2>3. CASE Insert(p) \/ MarkReady(p)
    <3>1. pc[p] \in {"insert", "ready"}
      BY <2>3 DEF Insert, MarkReady
    <3>2. kind[p] = "harness"
      BY <1>d, <3>1
    <3>3. home[p] # demo
      BY <1>a, <1>b, <3>1, <3>2 DEF Homes
    <3>4. d # Doc(p)
      BY <1>a, <2>1, <3>3
    <3> QED BY <1>a, <2>1, <2>3, <3>4, Moved
  <2> QED BY <1>b, <2>1, <2>2, <2>3
<1>2. \A d : d \in DocsOf(demo)' <=> d \in DocsOf(demo)
  <2> SUFFICES ASSUME NEW d \in DocsOf(demo)' PROVE status[d] # "absent"
    BY <1>b, <1>1
  <2>1. d \in Docs /\ status'[d] # "absent" /\ home[d[1]] = demo
    BY <1>b
  <2>2. CASE Insert(p)
    <3>1. pc[p] = "insert"
      BY <2>2 DEF Insert
    <3>2. kind[p] = "harness"
      BY <1>d, <3>1
    <3>3. home[p] # demo
      BY <1>a, <1>b, <3>1, <3>2 DEF Homes
    <3>4. d # Doc(p)
      BY <1>a, <2>1, <3>3
    <3> QED BY <1>a, <2>1, <2>2, <3>4, Moved
  <2>3. CASE Drop(p)
    BY <1>a, <2>1, <2>3, Moved
  <2>4. CASE MarkReady(p)
    BY <1>a, <2>1, <2>4, Moved DEF MarkReady
  <2> QED BY <1>b, <2>1, <2>2, <2>3, <2>4
<1>3. Complete(demo)'
  BY <1>b, <1>c, <1>1, <1>2 DEF Complete
\* Who is at work in it.
<1>4. kind[p] # "harness" /\ Active(p)' =>
          /\ pc'[p] \in {"enter", "clean", "drop", "seed"}
          /\ pc'[p] = "drop" => doomed'[p] = {}
  <2> SUFFICES ASSUME kind[p] # "harness", Active(p)'
               PROVE  /\ pc'[p] \in {"enter", "clean", "drop", "seed"}
                      /\ pc'[p] = "drop" => doomed'[p] = {}
    OBVIOUS
  <2>1. pc[p] \in {"start", "enter", "clean", "drop", "seed"}
    BY <1>d
  <2>2. CASE FindAccount(p)
    <3>1. Accounts(p) # {}
      BY <1>b DEF Accounts
    <3>2. AfterAccount(p) \in {"enter", "clean"}
      BY <1>a DEF AfterAccount, TypeOK, Kinds
    <3> QED BY <1>a, <2>2, <3>1, <3>2, Moved
  <2>3. CASE SelectIncomplete(p)
    <3>1. home[p] = demo
      BY <1>d, <2>3 DEF SelectIncomplete
    <3>2. doomed'[p] = {d \in DocsOf(demo) : status[d] # "ready"} /\ pc'[p] = "drop"
      BY <1>a, <2>3, <3>1, Moved
    <3> QED BY <1>c, <3>2 DEF Complete
  <2>4. CASE Drop(p) \/ Enter(p)
    BY <1>a, <2>4, Moved DEF Active, Ended
  <2>5. CASE Look(p)
    <3>1. home[p] = demo /\ fixture[p] \in Files
      BY <1>a, <1>d, <2>5 DEF Look, Files
    <3>2. Existing(p) # {}
      BY <1>c, <3>1 DEF Complete, Existing
    <3> QED BY <1>a, <2>5, <3>2, Moved DEF Active, Ended
  <2>6. CASE ProvisionConflict(p) \/ DocumentGone(p) \/ Interrupt(p)
    BY <1>a, <2>6, Moved DEF Active, Ended
  <2>7. ~ Provision(p) /\ ~ Insert(p) /\ ~ Ensure(p) /\ ~ Index(p) /\ ~ MarkReady(p)
    BY <1>a, <2>1, Ensured DEF Provision, Insert, Index, MarkReady
  <2> QED BY <2>2, <2>3, <2>4, <2>5, <2>6, <2>7 DEF Acts, Idle
<1> QED BY <1>b, <1>3, <1>4 DEF AtPeace, Active

LEMMA HealingKept == HealInv /\ NextHere => Healing'
<1> SUFFICES ASSUME HealInv, NEW p \in Procs, Acts(p),
                    NEW a \in Procs, kind'[a] = "script", Alone(a)'
             PROVE  (Active(a)' => Progress(a)') /\ (pc'[a] = "done" => AtPeace')
  BY DEF NextHere, Healing
<1>1. /\ SeedInv /\ Homes /\ kind' = kind /\ overlap \subseteq overlap' /\ pc[p] \notin Ended
      /\ \A q \in Procs : q # p => pc'[q] = pc[q]
  BY Frame DEF HealInv
<1>2. Alone(a)
  BY <1>1 DEF Alone
<1>3. CASE a # p
  <2>1. ~ Active(a)
    BY <1>1, <1>3, OnlyOne
  <2>2. ~ Active(a)'
    BY <1>1, <1>3, <2>1 DEF Active
  <2>3. pc'[a] = "done" => AtPeace
    BY <1>1, <1>2, <1>3 DEF HealInv, Healing
  <2> QED BY <2>2, <2>3, PeaceKept
<1>4. CASE a = p /\ pc[a] = "start"
  <2>1. FindAccount(a)
    BY <1>1, <1>4, Ensured
    DEF SeedInv, Acts, Idle, FindAccount, Provision, ProvisionConflict, Enter, SelectIncomplete, Look,
                DocumentGone, Drop, Insert, Index, MarkReady, Interrupt, Active
  <2>2. pc'[a] \in {"create", "clean"}
    BY <1>1, <1>4, <2>1, Moved DEF AfterAccount, SeedInv
  <2> QED BY <2>2 DEF Progress
<1>5. CASE a = p /\ pc[a] # "start"
  <2>1. Active(a)
    BY <1>1, <1>5 DEF Active
  <2>2. Progress(a)
    BY <1>1, <1>2, <2>1 DEF HealInv, Healing
  <2>3. (Active(a)' => Progress(a)') /\ (pc'[a] = "done" => demo' # None /\ Complete(demo)')
    BY <1>1, <1>5, <2>1, <2>2, ProgressMade
  <2>4. \A q \in Procs : q # a => ~ Active(q)'
    <3> SUFFICES ASSUME NEW q \in Procs, q # a, Active(q)' PROVE FALSE
      OBVIOUS
    <3>1. Active(q)
      BY <1>1, <1>5 DEF Active
    <3> QED BY <1>1, <1>2, <2>1, <3>1 DEF SeedInv, Together, Alone
  <2>5. pc'[a] = "done" => ~ Active(a)'
    BY DEF Active, Ended
  <2> QED BY <2>3, <2>4, <2>5 DEF AtPeace
<1> QED BY <1>3, <1>4, <1>5

-----------------------------------------------------------------------------
LEMMA InHandKept ==
    ASSUME SeedInv, InHand, NEW p \in Procs, Acts(p)
    PROVE  InHand'
<1>a. /\ TypeOK /\ status \in [Docs -> {"absent", "pending", "ready"}]
      /\ \A q \in Procs : Doc(q) = <<q, fixture[q]>> /\ Doc(q) \in Docs /\ Doc(q)[1] = q
      /\ \A d \in Docs : d[1] \in Procs
      /\ \A q \in Procs : q # p => pc'[q] = pc[q] /\ fixture'[q] = fixture[q]
      /\ status' = status \/ Drop(p) \/ Insert(p) \/ MarkReady(p)
  BY Frame DEF SeedInv, TypeOK, Doc, Docs
<1>b. pc[p] \notin Ended
  BY Frame
<1> SUFFICES ASSUME NEW d \in Docs, status'[d] = "pending"
             PROVE  /\ pc'[d[1]] \in {"index", "make", "upsert", "ready", "conflict", "interrupted"}
                    /\ d = <<d[1], fixture'[d[1]]>>
  BY DEF InHand, Doc
<1>1. CASE Insert(p) /\ d = Doc(p)
  <2>1. ~ Look(p) /\ ~ MarkReady(p)
    BY <1>1 DEF Insert, Look, MarkReady
  <2>2. pc'[p] = "index" /\ fixture'[p] = fixture[p]
    BY <1>1, <1>a, <2>1, Moved
  <2>3. d = <<p, fixture[p]>> /\ d[1] = p
    BY <1>1, <1>a
  <2> QED BY <2>2, <2>3
<1>2. CASE ~ (Insert(p) /\ d = Doc(p))
  <2>1. status[d] = "pending" /\ ~ (MarkReady(p) /\ d = Doc(p))
    BY <1>a, <1>2, Moved
  <2>2. /\ pc[d[1]] \in {"index", "make", "upsert", "ready", "conflict", "interrupted"}
        /\ d = <<d[1], fixture[d[1]]>> /\ d = Doc(d[1])
    BY <1>a, <2>1 DEF InHand
  <2>3. CASE d[1] # p
    BY <1>a, <2>2, <2>3
  <2>4. CASE d[1] = p
    <3>1. Index(p) \/ Ensure(p) \/ Interrupt(p)
      BY <1>b, <2>1, <2>2, <2>4
      DEF Ended, Acts, Idle, FindAccount, Provision, ProvisionConflict, Enter, SelectIncomplete, Look,
          DocumentGone, Drop, Insert
    <3>2. ~ Look(p) /\ ~ MarkReady(p)
      BY <2>1, <2>2, <2>4, <3>1, <1>a DEF Look, MarkReady
    <3> QED BY <1>a, <2>2, <2>4, <3>1, <3>2, Moved
  <2> QED BY <2>3, <2>4
<1> QED BY <1>1, <1>2

\* A file stays covered: what a script deletes it owes from then on.
LEMMA CoverKept ==
    ASSUME RestInv, NEW p \in Procs, Acts(p),
           NEW t \in Tenants, NEW f \in Files, Covered(t, f)
    PROVE  Covered(t, f)'
<1>a. /\ TypeOK /\ SeedInv /\ Homes /\ Doomed /\ fixture[p] \in 1 .. N /\ N \in Nat /\ f \in 1 .. N
      /\ \A q \in Procs : Doc(q) = <<q, fixture[q]>> /\ Doc(q) \in Docs /\ Doc(q)[1] = q
                          /\ Doc(q)[2] = fixture[q]
      /\ status \in [Docs -> {"absent", "pending", "ready"}]
      /\ \A u : \A d : d \in DocsOf(u)' <=> d \in Docs /\ status'[d] # "absent" /\ home[d[1]] = u
      /\ \A u : \A d : d \in DocsOf(u) <=> d \in Docs /\ status[d] # "absent" /\ home[d[1]] = u
      /\ \A q \in Procs : q # p => /\ pc'[q] = pc[q] /\ home'[q] = home[q] /\ fixture'[q] = fixture[q]
      /\ home'[p] = home[p] \/ pc[p] \in {"start", "create"}
      /\ status' = status \/ Drop(p) \/ Insert(p) \/ MarkReady(p)
  BY Frame DEF RestInv, SeedInv, TypeOK, Doc, Docs, Files, DocsOf
<1>b. pc[p] \notin Ended
  BY <1>a, Frame
<1>1. CASE Drop(p) /\ home[p] = t
  <2>1. pc[p] = "drop" /\ pc'[p] = "seed" /\ fixture'[p] = 1 /\ home'[p] = t
    BY <1>1, <1>a, Moved DEF Drop, Homes, Setup, Look, MarkReady
  <2> QED BY <1>a, <2>1 DEF Covered, Owes
<1>2. CASE ~ (Drop(p) /\ home[p] = t)
  <2>1. \A d \in Docs : status[d] # "absent" /\ home[d[1]] = t => status'[d] # "absent"
    <3> SUFFICES ASSUME NEW d \in Docs, status[d] # "absent", home[d[1]] = t PROVE status'[d] # "absent"
      OBVIOUS
    <3>1. CASE Drop(p)
      <4>1. d \notin doomed[p]
        BY <1>2, <3>1 DEF Drop, RestInv, Doomed
      <4> QED BY <1>a, <3>1, <4>1, Moved
    <3>2. CASE ~ Drop(p)
      BY <1>a, <3>2, Moved
    <3> QED BY <3>1, <3>2
  <2>2. CASE \E d \in DocsOf(t) : d[2] = f
    BY <1>a, <2>1, <2>2 DEF Covered
  <2>3. ASSUME NEW q \in Procs, home[q] = t, Owes(q, f), q # p PROVE Covered(t, f)'
    <3>1. Doc(q)' = Doc(q)
      BY <1>a, <2>3 DEF Doc
    <3> QED BY <1>a, <2>1, <2>3, <3>1 DEF Covered, Owes
  <2>4. CASE home[p] = t /\ Owes(p, f)
    <3>1. /\ home'[p] = t /\ pc[p] \notin {"start", "create", "enter"}
          /\ pc[p] \in {"clean", "drop", "seed", "insert", "index", "make", "upsert", "ready"}
      BY <1>a, <1>b, <2>4 DEF Owes, Ended
    <3>2. CASE SelectIncomplete(p)
      BY <1>a, <3>1, <3>2, Moved DEF Covered, Owes
    <3>3. CASE Look(p) /\ Existing(p) # {} /\ f = fixture[p]
      <4>1. PICK d \in Existing(p) : TRUE
        BY <3>3
      <4>2. d \in DocsOf(t) /\ d[2] = f
        BY <2>4, <3>3, <4>1 DEF Existing
      <4> QED BY <2>2, <4>2
    <3>4. CASE (Look(p) \/ MarkReady(p)) /\ f # fixture[p]
      <4>1. /\ fixture[p] < f /\ pc[p] \in {"seed", "ready"}
            /\ \/ pc'[p] = "seed" /\ fixture'[p] = fixture[p] + 1
               \/ pc'[p] = "insert" /\ fixture'[p] = fixture[p]
        BY <1>a, <2>4, <3>4, Moved DEF Owes, Look, MarkReady
      <4>2. Owes(p, f)'
        BY <1>a, <4>1 DEF Owes
      <4> QED BY <3>1, <4>2 DEF Covered
    <3>5. CASE Look(p) /\ Existing(p) = {}
      BY <1>a, <2>4, <3>1, <3>5, Moved DEF Covered, Owes, Look
    <3>6. CASE Insert(p)
      <4>1. pc[p] = "insert" /\ pc'[p] = "index" /\ fixture'[p] = fixture[p] /\ status'[Doc(p)] = "pending"
        BY <1>a, <3>6, Moved DEF Insert, Look, MarkReady
      <4>2. Doc(p)' = Doc(p)
        BY <4>1 DEF Doc
      <4> QED BY <2>4, <3>1, <4>1, <4>2 DEF Covered, Owes
    <3>7. CASE Index(p)
      <4>1. pc[p] = "upsert" /\ pc'[p] = "ready" /\ fixture'[p] = fixture[p] /\ status' = status
        BY <1>a, <3>7, Moved DEF Index, Look, MarkReady
      <4>2. Doc(p)' = Doc(p)
        BY <4>1 DEF Doc
      <4> QED BY <2>4, <3>1, <4>1, <4>2 DEF Covered, Owes
    <3>8. CASE MarkReady(p) /\ f = fixture[p]
      <4>1. status[Doc(p)] # "absent"
        BY <3>8 DEF MarkReady
      <4>2. Doc(p) \in DocsOf(t) /\ Doc(p)[2] = f
        BY <1>a, <2>4, <3>8, <4>1
      <4> QED BY <2>2, <4>2
    <3>9. ~ DocumentGone(p)
      BY <2>4 DEF Owes, DocumentGone
    <3>10. ~ FindAccount(p) /\ ~ Provision(p) /\ ~ ProvisionConflict(p) /\ ~ Enter(p)
      BY <3>1 DEF FindAccount, Provision, ProvisionConflict, Enter
    <3>11. ~ Drop(p)
      BY <1>2, <2>4
    <3>12. CASE Ensure(p)
      <4>1. /\ pc[p] \in {"index", "make"} /\ pc'[p] \in {"make", "upsert", "conflict"}
            /\ fixture'[p] = fixture[p] /\ status' = status
        BY <1>a, <3>12, Ensured
      <4>2. Doc(p)' = Doc(p)
        BY <4>1 DEF Doc
      <4> QED BY <2>4, <3>1, <4>1, <4>2 DEF Covered, Owes
    <3>13. CASE Interrupt(p)
      <4>1. pc'[p] = "interrupted" /\ fixture'[p] = fixture[p]
        BY <1>a, <3>13, Moved DEF Interrupt
      <4>2. fixture[p] <= f
        BY <1>a, <2>4 DEF Owes, Homes, Setup
      <4> QED BY <3>1, <4>1, <4>2 DEF Covered, Owes
    <3> QED BY <3>2, <3>3, <3>4, <3>5, <3>6, <3>7, <3>8, <3>9, <3>10, <3>11, <3>12, <3>13
            DEF Acts, Idle
  <2> QED BY <2>2, <2>3, <2>4 DEF Covered
<1> QED BY <1>1, <1>2

\* Who enters a corpus stands at its door or owes all of it.
LEMMA Arrival ==
    ASSUME RestInv, NEW p \in Procs, Acts(p), NEW t, home'[p] = t, home[p] # t
    PROVE  /\ pc'[p] = "enter" \/ \A f \in Files : Owes(p, f)'
           /\ FindAccount(p) \/ Provision(p)
<1>a. TypeOK /\ SeedInv /\ Homes /\ home \in [Procs -> Procs \cup {None}]
  BY DEF RestInv, SeedInv, TypeOK
<1>1. pc[p] \in {"start", "create"}
  BY <1>a, Frame
<1>2. FindAccount(p) \/ Provision(p)
  <2>1. home' # home
    OBVIOUS
  <2> QED BY <1>a, <2>1, Ensured DEF Acts, Idle, ProvisionConflict, Enter, SelectIncomplete, Look, DocumentGone,
                Drop, Insert, Index, MarkReady, Interrupt
<1>3. pc'[p] = AfterAccount(p)
  <2>1. FindAccount(p) /\ Accounts(p) = {} => home' = home
    BY DEF FindAccount
  <2> QED BY <1>a, <1>2, <2>1, Moved
<1>4. fixture'[p] = 1
  BY <1>1, <1>2 DEF FindAccount, Provision, RestInv, Homes, Setup
<1>5. AfterAccount(p) \in {"enter", "clean", "seed"}
  BY <1>a DEF AfterAccount, TypeOK, Kinds
<1>6. \A f \in Files : 1 <= f
  BY DEF Files
<1> QED BY <1>2, <1>3, <1>4, <1>5, <1>6 DEF Owes

LEMMA AccountedKept == RestInv /\ NextHere => Accounted'
<1> SUFFICES ASSUME RestInv, NEW p \in Procs, Acts(p)
             PROVE  InHand' /\ \A t \in Tenants' : Fresh(t)' \/ \A f \in Files : Covered(t, f)'
  BY DEF NextHere, Accounted
<1>2. InHand'
  BY InHandKept DEF RestInv, Accounted
<1>a. /\ TypeOK /\ SeedInv /\ Homes
      /\ \A q \in Procs : q # p => /\ pc'[q] = pc[q] /\ home'[q] = home[q] /\ fixture'[q] = fixture[q]
      /\ home'[p] = home[p] \/ pc[p] \in {"start", "create"}
      /\ \A d \in Docs : d[1] \in Procs /\ d[2] \in Files /\ d = <<d[1], d[2]>>
  BY Frame DEF RestInv, SeedInv, Docs
<1>3. ASSUME NEW t \in Tenants, \A f \in Files : Covered(t, f) PROVE \A f \in Files : Covered(t, f)'
  BY <1>3, CoverKept
<1>4. ASSUME NEW t, home'[p] = t, home[p] # t, \A q \in Procs : q # p /\ home[q] = t => pc[q] = "enter"
      PROVE  Fresh(t)' \/ \A f \in Files : Covered(t, f)'
  <2>1. CASE pc'[p] = "enter"
    BY <1>a, <1>4, <2>1 DEF Fresh
  <2>2. CASE \A f \in Files : Owes(p, f)'
    BY <1>4, <2>2 DEF Covered
  <2> QED BY <1>4, <2>1, <2>2, Arrival
<1>5. ASSUME NEW t \in Tenants, Fresh(t) PROVE Fresh(t)' \/ \A f \in Files : Covered(t, f)'
  <2>1. CASE home[p] = t
    <3>1. pc[p] = "enter" /\ home'[p] = t
      BY <1>a, <1>5, <2>1 DEF Fresh
    <3>2. CASE Interrupt(p)
      <4>1. pc'[p] = "interrupted" /\ fixture'[p] = 1
        BY <1>a, <3>1, <3>2, Moved DEF Interrupt, Homes, Setup
      <4>2. \A f \in Files : Owes(p, f)'
        BY <4>1 DEF Owes, Files
      <4> QED BY <3>1, <4>2 DEF Covered
    <3> SUFFICES ASSUME ~ Interrupt(p) PROVE Fresh(t)' \/ \A f \in Files : Covered(t, f)'
      BY <3>2
    <3>6. Enter(p)
      BY <1>a, <3>1, Ensured
      DEF Acts, Idle, FindAccount, Provision, ProvisionConflict, SelectIncomplete, Look, DocumentGone,
          Drop, Insert, Index, MarkReady
    <3>3. DocsOf(t) = {}
      <4> SUFFICES ASSUME NEW d \in DocsOf(t) PROVE FALSE
        OBVIOUS
      <4>1. d \in Docs /\ status[d] # "absent" /\ home[d[1]] = t
        BY DEF DocsOf
      <4>2. pc[d[1]] = "enter"
        BY <1>a, <1>5, <4>1 DEF Fresh
      <4>3. status[<<d[1], d[2]>>] = "absent"
        BY <1>a, <4>1, <4>2 DEF SeedInv, Unseeded
      <4> QED BY <1>a, <4>1, <4>3
    <3>4. pc'[p] = "seed" /\ fixture'[p] = 1
      BY <1>a, <2>1, <3>1, <3>6, <3>3, Moved DEF Enter, Homes, Setup
    <3>5. \A f \in Files : Owes(p, f)'
      BY <3>4 DEF Owes, Files
    <3> QED BY <3>1, <3>5 DEF Covered
  <2>2. CASE home[p] # t /\ home'[p] = t
    BY <1>4, <1>5, <2>2 DEF Fresh
  <2>3. CASE home[p] # t /\ home'[p] # t
    BY <1>a, <1>5, <2>3 DEF Fresh
  <2> QED BY <2>1, <2>2, <2>3
<1>6. ASSUME NEW t \in Tenants', t \notin Tenants PROVE Fresh(t)' \/ \A f \in Files : Covered(t, f)'
  <2>1. Provision(p) /\ t = p /\ t # None
    BY <1>a, <1>6, Ensured DEF Tenants, Acts, Idle, FindAccount, Provision, ProvisionConflict, Enter, SelectIncomplete,
                Look, DocumentGone, Drop, Insert, Index, MarkReady, Interrupt, store
  <2>2. home'[p] = t
    BY <1>a, <2>1, Moved
  <2>3. \A q \in Procs : home[q] # t
    BY <1>a, <1>6, <2>1 DEF Homes, Tenants
  <2> QED BY <1>4, <2>2, <2>3
<1>7. \A t \in Tenants : Fresh(t) \/ \A f \in Files : Covered(t, f)
  BY DEF RestInv, Accounted
<1> QED BY <1>2, <1>3, <1>5, <1>6, <1>7

-----------------------------------------------------------------------------
CorpusInv == HealInv /\ RestInv

LEMMA InitCorpus == Init => CorpusInv
<1> SUFFICES ASSUME Init PROVE CorpusInv
  OBVIOUS
<1>1. SeedInv
  BY InitSeed
<1>2. Homes /\ Doomed
  BY DEF Init, Homes, Doomed, Setup
<1>3. Healing
  BY DEF Init, Healing, Active, Ended
<1>4. Accounted
  BY DEF Init, Accounted, InHand, Tenants
<1> QED BY <1>1, <1>2, <1>3, <1>4 DEF CorpusInv, HealInv, RestInv

LEMMA NextCorpus == CorpusInv /\ [Next]_vars => CorpusInv'
<1> SUFFICES ASSUME CorpusInv, [Next]_vars PROVE CorpusInv'
  OBVIOUS
<1>1. CASE UNCHANGED vars \/ WorkerCreates
  <2>0. UNCHANGED Rest
    BY <1>1 DEF vars, store, Rest, WorkerCreates
  <2>1. SeedInv'
    BY NextSeed DEF CorpusInv, HealInv
  <2>2. \A t : DocsOf(t)' = DocsOf(t)
    BY <2>0 DEF Rest, local, DocsOf
  <2>3. Homes' /\ Doomed'
    BY <2>0 DEF Rest, local, CorpusInv, HealInv, Homes, Doomed
  <2>4. Healing'
    BY <2>0, <2>2
    DEF Rest, local, CorpusInv, HealInv, Healing, Alone, Active, Progress, AtPeace, ReadyBut,
        HasBefore, Complete, Doc
  <2>5. Accounted'
    BY <2>0, <2>2
    DEF Rest, local, CorpusInv, RestInv, Accounted, InHand, Tenants, Fresh, Covered, Owes, Doc
  <2> QED BY <2>1, <2>3, <2>4, <2>5 DEF CorpusInv, HealInv, RestInv
<1>2. CASE NextHere
  <2>1. SeedInv' /\ Homes' /\ Doomed'
    BY <1>2, NextSeed, HomesKept DEF CorpusInv, HealInv
  <2>2. Healing' /\ Accounted'
    BY <1>2, HealingKept, AccountedKept DEF CorpusInv
  <2> QED BY <2>1, <2>2 DEF CorpusInv, HealInv, RestInv
<1> QED BY <1>1, <1>2, NextActs

\* How far a script that runs alone has got, and who owes a corpus a file: whatever
\* demo_login, seed_demo.py and ensure_corpus do at the same time.
THEOREM CorpusInvariance == Spec => []CorpusInv
<1> QED BY InitCorpus, NextCorpus, PTL DEF Spec

\* Running the script, and nothing else meanwhile, leaves a workspace with every file
\* indexed, whatever was left behind before; and no later visitor or script spoils it.
THEOREM ScriptsHeal == Spec => []ScriptHeals
<1>1. CorpusInv => ScriptHeals
  BY DEF CorpusInv, HealInv, Healing, AtPeace, ScriptHeals
<1> QED BY <1>1, CorpusInvariance, PTL

\* Once everybody has ended, a corpus is short of a file only by the fault of a process
\* that was interrupted, or lost the race for the collection, at that file or before:
\* every file has a document, somebody who still owes it or somebody who was stopped.
THEOREM CorporaEndComplete == Spec => []CompleteAtRest
<1>1. CorpusInv => CompleteAtRest
  <2> SUFFICES ASSUME CorpusInv, \A p \in Procs : ~ Active(p), NEW t \in Tenants, NEW f \in Files,
                      ~ StoppedBefore(t, f)
               PROVE  /\ \E d \in DocsOf(t) : d[2] = f
                      /\ \A d \in DocsOf(t) : d[2] = f => status[d] = "ready"
    BY DEF CompleteAtRest, Tenants
  <2>1. ASSUME NEW p \in Procs
        PROVE  pc[p] \in {"start", "done", "failed", "conflict", "interrupted"}
    BY DEF Active, Ended
  <2>2. InHand /\ (Fresh(t) \/ Covered(t, f))
    BY DEF CorpusInv, RestInv, Accounted
  <2>3. ~ Fresh(t)
    BY <2>1 DEF Fresh
  <2>4. \E d \in DocsOf(t) : d[2] = f
    BY <2>1, <2>2, <2>3 DEF Covered, Owes, StoppedBefore
  <2>5. \A d \in DocsOf(t) : d[2] = f => status[d] = "ready"
    <3> SUFFICES ASSUME NEW d \in DocsOf(t), d[2] = f, status[d] = "pending" PROVE FALSE
      BY DEF DocsOf, CorpusInv, HealInv, SeedInv, TypeOK
    <3>1. d \in Docs /\ d[1] \in Procs /\ home[d[1]] = t
      BY DEF DocsOf, Docs
    <3>2. pc[d[1]] \in {"conflict", "interrupted"} /\ d = <<d[1], fixture[d[1]]>>
      BY <2>1, <2>2, <3>1 DEF InHand, Doc
    <3>3. fixture[d[1]] = f /\ f <= f
      BY <3>2 DEF Files
    <3> QED BY <3>1, <3>2, <3>3 DEF StoppedBefore
  <2> QED BY <2>4, <2>5
<1> QED BY <1>1, CorpusInvariance, PTL
=============================================================================
