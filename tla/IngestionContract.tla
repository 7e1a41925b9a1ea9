-------------------------- MODULE IngestionContract --------------------------
(***************************************************************************)
(* What a client that polls GET /ingest/{id} and lists its documents may   *)
(* rely on when the broker delivers each message at most once: a job is    *)
(* QUEUED, then RUNNING, then SUCCEEDED or FAILED for good; indexing a     *)
(* document is one atomic step of a running upload; and an upload succeeds *)
(* only after it.  A job may be lost, so nothing here is promised to       *)
(* happen.  Postgres and Qdrant are one store, and there is no queue.      *)
(***************************************************************************)
CONSTANTS Documents, Jobs, None

VARIABLES docStatus, jobState, task, searchable

vars == <<docStatus, jobState, task, searchable>>

Init ==
    /\ docStatus = [d \in Documents |-> "absent"]
    /\ jobState = [j \in Jobs |-> "absent"]
    /\ task = [j \in Jobs |-> None]
    /\ searchable = {}

SetStatus(j, d, state, status) ==
    /\ jobState' = [jobState EXCEPT ![j] = state]
    /\ docStatus' = [docStatus EXCEPT ![d] = status]

\* An upload brings its document into being; a reindex names one that exists.
Request(d, j, kind) ==
    /\ jobState[j] = "absent"
    /\ kind = "ingest" <=> docStatus[d] = "absent"
    /\ SetStatus(j, d, "queued", "pending")
    /\ task' = [task EXCEPT ![j] = [kind |-> kind, doc |-> d]]
    /\ UNCHANGED searchable

Begin(j) ==
    /\ jobState[j] = "queued"
    /\ SetStatus(j, task[j].doc, "running", "processing")
    /\ UNCHANGED <<task, searchable>>

Index(j) ==
    /\ jobState[j] = "running"
    /\ task[j].kind = "ingest"
    /\ searchable' = searchable \cup {task[j].doc}
    /\ UNCHANGED <<docStatus, jobState, task>>

Succeed(j) ==
    /\ jobState[j] = "running"
    /\ task[j].kind = "ingest" => task[j].doc \in searchable
    /\ SetStatus(j, task[j].doc, "succeeded", "ready")
    /\ UNCHANGED <<task, searchable>>

Fail(j) ==
    /\ jobState[j] = "running"
    /\ SetStatus(j, task[j].doc, "failed", "failed")
    /\ UNCHANGED <<task, searchable>>

Next ==
    \/ \E d \in Documents, j \in Jobs, kind \in {"ingest", "reindex"} : Request(d, j, kind)
    \/ \E j \in Jobs : Begin(j) \/ Index(j) \/ Succeed(j) \/ Fail(j)

Spec == Init /\ [][Next]_vars
=============================================================================
