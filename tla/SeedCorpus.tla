------------------------------ MODULE SeedCorpus ------------------------------
(***************************************************************************)
(* The three programs that fill a shared corpus from a directory of sample *)
(* files: POST /auth/demo (a visitor), scripts/seed_demo.py (an operator)  *)
(* and eval/run_eval.py (the harness, in a tenant of its own).  They look  *)
(* a row up and insert it in different transactions or, at READ COMMITTED, *)
(* different snapshots; no unique index covers (tenant_id, uri).           *)
(*                                                                         *)
(* Granularity: one action per statement that reads what another process   *)
(* may write, and per commit.  _index_document is the check of the Qdrant  *)
(* collection, its creation when it was missing, and one step for the      *)
(* upsert and the commit of the chunk rows, which may also end between the *)
(* two; its foreign key makes the rows of a deleted document impossible.   *)
(* A document is named by the process that inserts it and its file; a      *)
(* tenant by the process that inserts it.                                  *)
(***************************************************************************)
EXTENDS Naturals

CONSTANTS
    Procs,       \* one run of one of the three programs each
    N,           \* number of sample files
    None,        \* no tenant
    MaxFailures  \* bound: processes that die or have a call raise

ASSUME SeedAssumption == N \in Nat \ {0} /\ None \notin Procs /\ MaxFailures \in Nat

VARIABLES
    kind,      \* which of the three programs a process runs
    pc,        \* where it is
    home,      \* the tenant it found or made
    fixture,   \* the file it is at
    doomed,    \* documents the script has selected for deletion
    demo,      \* tenant of the user with the demo e-mail (a unique index)
    evals,     \* tenants named EVAL_TENANT (no unique index)
    status,    \* documents.status, "absent" without a row
    rows,      \* documents with chunk rows
    collection, \* whether the Qdrant collection exists
    points,    \* documents with points in Qdrant
    overlap,   \* pairs of processes that ran at the same time
    failures   \* interruptions so far (at most MaxFailures)

local == <<pc, home, fixture, doomed>>
store == <<demo, evals, status, rows, collection, points>>
vars  == <<kind, local, store, overlap, failures>>

Kinds == {"visitor", "script", "harness"}
Files == 1 .. N
Docs  == Procs \X Files

\* A process is over when it is done, or by an error: of the data base or of a document
\* that is gone (failed), of the collection somebody else has created (conflict), or of
\* a call or the process itself (interrupted).
Ended == {"done", "failed", "conflict", "interrupted"}
Steps == Ended \cup {"start", "create", "enter", "clean", "drop", "seed", "insert",
                     "index", "make", "upsert", "ready"}

Active(p) == pc[p] \notin Ended \cup {"start"}
Doc(p)    == <<p, fixture[p]>>
DocsOf(t) == {d \in Docs : status[d] # "absent" /\ home[d[1]] = t}

Init ==
    /\ kind \in [Procs -> Kinds]
    /\ pc = [p \in Procs |-> "start"]
    /\ home = [p \in Procs |-> None]
    /\ fixture = [p \in Procs |-> 1]
    /\ doomed = [p \in Procs |-> {}]
    /\ demo = None /\ evals = {}
    /\ status = [d \in Docs |-> "absent"]
    /\ collection \in BOOLEAN
    /\ rows = {} /\ points = {}
    /\ overlap = {} /\ failures = 0

-----------------------------------------------------------------------------
Goto(p, step) == pc' = [pc EXCEPT ![p] = step]

\* The demo user of a visitor or a script, the tenants of a harness.
Accounts(p) == IF kind[p] = "harness" THEN evals ELSE {demo} \ {None}

\* What follows the account in each program.
AfterAccount(p) ==
    CASE kind[p] = "visitor" -> "enter"
      [] kind[p] = "script"  -> "clean"
      [] kind[p] = "harness" -> "seed"

\* The first select: any of the rows that match, if there is one.
FindAccount(p) ==
    /\ pc[p] = "start"
    /\ IF Accounts(p) = {}
       THEN Goto(p, "create") /\ UNCHANGED home
       ELSE /\ \E t \in Accounts(p) : home' = [home EXCEPT ![p] = t]
            /\ Goto(p, AfterAccount(p))
    /\ overlap' = overlap \cup {{p, q} : q \in {q \in Procs : Active(q)}}
    /\ UNCHANGED <<kind, fixture, doomed, store, failures>>

\* Tenant and, for the demo, its user are committed together.
Provision(p) ==
    /\ pc[p] = "create"
    /\ IF kind[p] = "harness"
       THEN evals' = evals \cup {p} /\ UNCHANGED demo
       ELSE demo = None /\ demo' = p /\ UNCHANGED evals
    /\ home' = [home EXCEPT ![p] = p]
    /\ Goto(p, AfterAccount(p))
    /\ UNCHANGED <<kind, fixture, doomed, status, rows, collection, points, overlap, failures>>

\* uq_users_email: another process has inserted the demo user since the select.
ProvisionConflict(p) ==
    /\ pc[p] = "create"
    /\ kind[p] # "harness" /\ demo # None
    /\ Goto(p, "failed")
    /\ UNCHANGED <<kind, home, fixture, doomed, store, overlap, failures>>

\* demo_login: a workspace with any document is entered as it is.
Enter(p) ==
    /\ pc[p] = "enter"
    /\ Goto(p, IF DocsOf(home[p]) # {} THEN "done" ELSE "seed")
    /\ UNCHANGED <<kind, home, fixture, doomed, store, overlap, failures>>

\* Fault: the script looks for failed documents only, and seeding records none.
SelectFailed(p) ==
    /\ pc[p] = "clean"
    /\ doomed' = [doomed EXCEPT ![p] = {d \in DocsOf(home[p]) : status[d] = "failed"}]
    /\ Goto(p, "drop")
    /\ UNCHANGED <<kind, home, fixture, store, overlap, failures>>

\* The script selects the documents of the workspace that are not READY ...
SelectIncomplete(p) ==
    /\ pc[p] = "clean"
    /\ doomed' = [doomed EXCEPT ![p] = {d \in DocsOf(home[p]) : status[d] # "ready"}]
    /\ Goto(p, "drop")
    /\ UNCHANGED <<kind, home, fixture, store, overlap, failures>>

\* Fault: the corpus is cleaned and not seeded again.
DropAndStop(p) ==
    /\ pc[p] = "drop"
    /\ status' = [d \in Docs |-> IF d \in doomed[p] THEN "absent" ELSE status[d]]
    /\ rows' = rows \ doomed[p]
    /\ Goto(p, "done")
    /\ UNCHANGED <<kind, home, fixture, doomed, demo, evals, collection, points, overlap,
                   failures>>

\* ... and deletes them, whatever they have become, with their rows; the cascade
\* takes rows committed since.  Their points stay.
Drop(p) ==
    /\ pc[p] = "drop"
    /\ status' = [d \in Docs |-> IF d \in doomed[p] THEN "absent" ELSE status[d]]
    /\ rows' = rows \ doomed[p]
    /\ Goto(p, "seed")
    /\ UNCHANGED <<kind, home, fixture, doomed, demo, evals, collection, points, overlap,
                   failures>>

-----------------------------------------------------------------------------
(* The loop over the files, the same in seed_demo_corpus_sync and          *)
(* ensure_corpus.                                                          *)

Advance(p) ==
    /\ Goto(p, IF fixture[p] = N THEN "done" ELSE "seed")
    /\ fixture' = [fixture EXCEPT ![p] = IF @ = N THEN @ ELSE @ + 1]

Existing(p) == {d \in DocsOf(home[p]) : d[2] = fixture[p]}

\* Fault: only a document that is READY counts as existing.
LookForReady(p) ==
    /\ pc[p] = "seed"
    /\ IF \E d \in Existing(p) : status[d] = "ready"
       THEN Advance(p) ELSE Goto(p, "insert") /\ UNCHANGED fixture
    /\ UNCHANGED <<kind, home, doomed, store, overlap, failures>>

\* A file that has a document, in whatever status, is skipped.
Look(p) ==
    /\ pc[p] = "seed"
    /\ IF Existing(p) # {} THEN Advance(p) ELSE Goto(p, "insert") /\ UNCHANGED fixture
    /\ UNCHANGED <<kind, home, doomed, store, overlap, failures>>

Insert(p) ==
    /\ pc[p] = "insert"
    /\ status' = [status EXCEPT ![Doc(p)] = "pending"]
    /\ Goto(p, "index")
    /\ UNCHANGED <<kind, home, fixture, doomed, demo, evals, rows, collection, points, overlap,
                   failures>>

\* ensure_collection: one request asks whether the collection exists ...
CheckCollection(p) ==
    /\ pc[p] = "index"
    /\ Goto(p, IF collection THEN "upsert" ELSE "make")
    /\ UNCHANGED <<kind, home, fixture, doomed, store, overlap, failures>>

\* ... and another creates it ...
CreateCollection(p) ==
    /\ pc[p] = "make" /\ ~collection
    /\ collection' = TRUE
    /\ Goto(p, "upsert")
    /\ UNCHANGED <<kind, home, fixture, doomed, demo, evals, status, rows, points, overlap, failures>>

\* ... and raises if somebody has created it in between.
CreateConflict(p) ==
    /\ pc[p] = "make" /\ collection
    /\ Goto(p, "conflict")
    /\ UNCHANGED <<kind, home, fixture, doomed, store, overlap, failures>>

\* A worker that indexes an upload, of any tenant, creates the collection.
WorkerCreates ==
    /\ ~collection /\ collection' = TRUE
    /\ UNCHANGED <<kind, local, demo, evals, status, rows, points, overlap, failures>>

\* Fault: an indexing error is logged and the loop goes on.
IndexOrLog(p) ==
    /\ pc[p] = "upsert" /\ status[Doc(p)] # "absent"
    /\ \/ UNCHANGED <<rows, points>>
       \/ rows' = rows \cup {Doc(p)} /\ points' = points \cup {Doc(p)}
    /\ Goto(p, "ready")
    /\ UNCHANGED <<kind, home, fixture, doomed, demo, evals, status, collection, overlap, failures>>

\* The chunk rows and points of a document whose row exists.
Index(p) ==
    /\ pc[p] = "upsert" /\ status[Doc(p)] # "absent"
    /\ rows' = rows \cup {Doc(p)}
    /\ points' = points \cup {Doc(p)}
    /\ Goto(p, "ready")
    /\ UNCHANGED <<kind, home, fixture, doomed, demo, evals, status, collection, overlap, failures>>

MarkReady(p) ==
    /\ pc[p] = "ready" /\ status[Doc(p)] # "absent"
    /\ status' = [status EXCEPT ![Doc(p)] = "ready"]
    /\ Advance(p)
    /\ UNCHANGED <<kind, home, doomed, demo, evals, rows, collection, points, overlap,
                   failures>>

\* The script has deleted the document: the foreign key of the chunk rows, or the
\* attribute of None, raises.
DocumentGone(p) ==
    /\ pc[p] \in {"upsert", "ready"} /\ status[Doc(p)] = "absent"
    /\ Goto(p, "failed")
    /\ UNCHANGED <<kind, home, fixture, doomed, store, overlap, failures>>

\* The process dies or a call raises; a commit that takes effect and raises is that
\* step and this one.  In _index_document the upsert may have taken effect.
Interrupt(p) ==
    /\ Active(p) /\ failures < MaxFailures
    /\ failures' = failures + 1
    /\ Goto(p, "interrupted")
    /\ \/ UNCHANGED points
       \/ /\ pc[p] = "upsert" /\ status[Doc(p)] # "absent"
          /\ points' = points \cup {Doc(p)}
    /\ UNCHANGED <<kind, home, fixture, doomed, demo, evals, status, rows, collection, overlap>>

Next ==
    \/ \E p \in Procs :
        \/ FindAccount(p) \/ Provision(p) \/ ProvisionConflict(p) \/ Enter(p)
        \/ SelectIncomplete(p) \/ Drop(p)
        \/ Look(p) \/ Insert(p)
        \/ CheckCollection(p) \/ CreateCollection(p) \/ CreateConflict(p)
        \/ Index(p) \/ MarkReady(p) \/ DocumentGone(p)
        \/ Interrupt(p)
    \/ WorkerCreates

Spec == Init /\ [][Next]_vars
-----------------------------------------------------------------------------
(* Properties.                                                             *)

TypeOK ==
    /\ kind \in [Procs -> Kinds]
    /\ pc \in [Procs -> Steps]
    /\ home \in [Procs -> Procs \cup {None}]
    /\ fixture \in [Procs -> Files]
    /\ doomed \in [Procs -> SUBSET Docs]
    /\ demo \in Procs \cup {None} /\ evals \subseteq Procs
    /\ status \in [Docs -> {"absent", "pending", "ready"}]
    /\ collection \in BOOLEAN
    /\ rows \subseteq Docs /\ points \subseteq Docs
    /\ overlap \subseteq SUBSET Procs
    /\ failures \in 0 .. MaxFailures

\* Whatever visitors, scripts, deletions and interruptions do to it, a document the
\* workspace shows as READY has its chunk rows and its points (the order index, then
\* mark, of seed_demo_corpus_sync and ensure_corpus).
ReadyIsSearchable ==
    \A d \in Docs : status[d] = "ready" => d \in rows /\ d \in points

\* A file is in a corpus twice only if the two processes that inserted it ran at the
\* same time: runs one after the other, interrupted or not, never double it.
DuplicatesOverlap ==
    \A p, q \in Procs, f \in Files :
        /\ p # q /\ home[p] = home[q]
        /\ status[<<p, f>>] # "absent" /\ status[<<q, f>>] # "absent"
        => {p, q} \in overlap

Complete(t) ==
    /\ \A d \in DocsOf(t) : status[d] = "ready"
    /\ \A f \in Files : \E d \in DocsOf(t) : d[2] = f

Alone(p) == \A q \in Procs \ {p} : {p, q} \notin overlap

\* The docstring of scripts/seed_demo.py: a script that ran alone has removed what
\* others left half-indexed and seeded every file, and nothing that starts later
\* undoes it.
ScriptHeals ==
    \A p \in Procs : kind[p] = "script" /\ pc[p] = "done" /\ Alone(p) => Complete(demo)

\* A corpus is short of a file only by the fault of somebody who stopped at it or before:
\* a process that was interrupted, or that lost the race for the collection, which leaves
\* its PENDING document behind for the others to skip.
StoppedBefore(t, f) ==
    \E p \in Procs : home[p] = t /\ pc[p] \in {"conflict", "interrupted"} /\ fixture[p] <= f

\* Once everybody has ended, every file of a corpus somebody provisioned has a document,
\* and all its documents are READY, or somebody stopped before it was: whatever the
\* processes inserted, skipped and deleted at the same time.  In particular a process
\* that failed because its document was deleted leaves no gap, for who deletes a document
\* seeds it again.
CompleteAtRest ==
    (\A p \in Procs : ~Active(p)) =>
        \A t \in evals \cup ({demo} \ {None}), f \in Files :
            \/ /\ \E d \in DocsOf(t) : d[2] = f
               /\ \A d \in DocsOf(t) : d[2] = f => status[d] = "ready"
            \/ StoppedBefore(t, f)
=============================================================================
