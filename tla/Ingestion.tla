------------------------------ MODULE Ingestion ------------------------------
(***************************************************************************)
(* The asynchronous ingestion pipeline of Sourcebound: the two API routes  *)
(* that create jobs (POST /ingest, POST /documents/{id}/reingest), the     *)
(* Celery queue on Redis, and the worker bodies process_ingestion_job and  *)
(* reindex_document, which write to two stores that share no transaction:  *)
(* Postgres (documents, jobs, chunk rows) and Qdrant (points).             *)
(*                                                                         *)
(* Granularity: one action per committed transaction and per call to       *)
(* Qdrant; everything between two such calls is local to the worker.  The  *)
(* transactions that write a job and its document are single steps: they   *)
(* hold no lock across a call, and their writes are taken as blind ones    *)
(* (SQLAlchemy leaves out a column that it loaded with the new value).     *)
(* The transaction of _index_document, open across the upsert, is not: its *)
(* rows are visible to the unique index before they are committed.         *)
(*                                                                         *)
(* Data abstracted: the chunks of one indexing run, inserted together and  *)
(* upserted in one request, are one Batch of fresh point ids.  Vectors,    *)
(* texts, errors and timestamps are left out.  The "job is None" early     *)
(* returns of the workers are left out: a message names rows committed     *)
(* before it was sent, and no code deletes the rows of a document that has *)
(* jobs.                                                                   *)
(***************************************************************************)
EXTENDS Integers, FiniteSets

CONSTANTS
    Documents,      \* documents.id
    Jobs,           \* ingestion_jobs.id; the Celery message of a job is named by it
    Workers,        \* Celery worker processes
    Batches,        \* sets of fresh uuid4 point ids, one per indexing run
    None,           \* no document, job or batch
    Prefetch,       \* messages a worker may hold before it runs them
    MaxDuplicates,  \* bound: messages redelivered while a worker still holds them
    MaxCrashes      \* bound: workers lost

Task == [kind : {"ingest", "reindex"}, doc : Documents]

ASSUME IngestionAssumption ==
    /\ None \notin Documents \cup Jobs \cup Batches \cup Task
    /\ Prefetch \in Nat \ {0}
    /\ MaxDuplicates \in Nat
    /\ MaxCrashes \in Nat

VARIABLES
    docStatus,   \* documents.status, "absent" before the row exists
    jobState,    \* ingestion_jobs.state, "absent" before the row exists
    task,        \* what the job asks for: kind of Celery task and document
    chunks,      \* committed Chunk rows of a document: one batch or None
    points,      \* Qdrant: the document_id in the payload of a batch of points
    collection,  \* Qdrant collection: absent, bare, or with its tenant_id index
    sending,     \* jobs committed by a route that has not called delay() yet
    queue,       \* messages in the Redis list
    unacked,     \* messages delivered and not acknowledged (kombu's unacked hash)
    reserved,    \* messages a worker has prefetched and not started
    pc,          \* where a worker is in its task
    run,         \* the job a worker runs
    rows,        \* the batch a worker has flushed and not committed
    ids,         \* the batch of point ids a reindex run works on
    duplicates,  \* redeliveries so far (at most MaxDuplicates)
    crashes      \* workers lost so far (at most MaxCrashes)

dbVars     == <<docStatus, jobState, task, chunks>>
qdrantVars == <<points, collection>>
brokerVars == <<sending, queue, unacked, reserved>>
workerVars == <<pc, run, rows, ids>>
bounds     == <<duplicates, crashes>>
vars       == <<dbVars, qdrantVars, brokerVars, workerVars, bounds>>

DocumentStatus == {"pending", "processing", "ready", "failed"}
IngestionState == {"queued", "running", "succeeded", "failed"}

\* Calls that may raise inside the try block of the worker bodies.
Fallible == {"prepare", "check", "create", "payload_index", "flush", "upsert",
             "commit", "retrieve", "reupsert"}
Steps == Fallible \cup {"idle", "begin", "succeed", "fail"}

Doc(w)  == task[run[w]].doc
Kind(w) == task[run[w]].kind

Init ==
    /\ docStatus = [d \in Documents |-> "absent"]
    /\ jobState = [j \in Jobs |-> "absent"]
    /\ task = [j \in Jobs |-> None]
    /\ chunks = [d \in Documents |-> None]
    /\ points = [b \in Batches |-> None]
    /\ collection = "absent"
    /\ sending = {} /\ queue = {} /\ unacked = {}
    /\ reserved = [w \in Workers |-> {}]
    /\ pc = [w \in Workers |-> "idle"]
    /\ run = [w \in Workers |-> None]
    /\ rows = [w \in Workers |-> None]
    /\ ids = [w \in Workers |-> None]
    /\ duplicates = 0 /\ crashes = 0

-----------------------------------------------------------------------------
(* The API routes.  Each commits its rows first and calls delay() after.   *)

\* A new QUEUED job for d, whose document becomes PENDING, in one transaction.
CreateJob(d, j, kind) ==
    /\ jobState[j] = "absent"
    /\ jobState' = [jobState EXCEPT ![j] = "queued"]
    /\ task' = [task EXCEPT ![j] = [kind |-> kind, doc |-> d]]
    /\ docStatus' = [docStatus EXCEPT ![d] = "pending"]
    /\ sending' = sending \cup {j}
    /\ UNCHANGED <<chunks, qdrantVars, queue, unacked, reserved, workerVars, bounds>>

Ingest(d, j) == docStatus[d] = "absent" /\ CreateJob(d, j, "ingest")

Reingest(d, j) == docStatus[d] # "absent" /\ CreateJob(d, j, "reindex")

\* delay() reaches the broker.
Enqueue(j) ==
    /\ j \in sending
    /\ sending' = sending \ {j}
    /\ queue' = queue \cup {j}
    /\ UNCHANGED <<dbVars, qdrantVars, unacked, reserved, workerVars, bounds>>

\* delay() raises, or the API process dies between commit and delay().
EnqueueFails(j) ==
    /\ j \in sending
    /\ crashes < MaxCrashes
    /\ crashes' = crashes + 1
    /\ sending' = sending \ {j}
    /\ UNCHANGED <<dbVars, qdrantVars, queue, unacked, reserved, workerVars, duplicates>>

-----------------------------------------------------------------------------
(* The broker: Celery's defaults on Redis.  A message is acknowledged when *)
(* its task starts, and put back in the list when it stays unacknowledged  *)
(* for the visibility timeout, whether or not its holder is alive.         *)

Receive(w, j) ==
    /\ j \in queue \ reserved[w]
    /\ Cardinality(reserved[w]) < Prefetch
    /\ queue' = queue \ {j}
    /\ unacked' = unacked \cup {j}
    /\ reserved' = [reserved EXCEPT ![w] = @ \cup {j}]
    /\ UNCHANGED <<dbVars, qdrantVars, sending, workerVars, bounds>>

Held(j) == \E w \in Workers : j \in reserved[w]

Redeliver(j) ==
    /\ j \in unacked
    /\ Held(j) => duplicates < MaxDuplicates
    /\ duplicates' = IF Held(j) THEN duplicates + 1 ELSE duplicates
    /\ unacked' = unacked \ {j}
    /\ queue' = queue \cup {j}
    /\ UNCHANGED <<dbVars, qdrantVars, sending, reserved, workerVars, crashes>>

\* Fault: the message stays unacknowledged.
AcknowledgeNever(w, j) ==
    /\ pc[w] = "idle"
    /\ j \in reserved[w]
    /\ reserved' = [reserved EXCEPT ![w] = @ \ {j}]
    /\ pc' = [pc EXCEPT ![w] = "begin"]
    /\ run' = [run EXCEPT ![w] = j]
    /\ UNCHANGED <<dbVars, qdrantVars, sending, queue, unacked, rows, ids, bounds>>

\* An idle worker acknowledges a message and enters the task body.
Acknowledge(w, j) ==
    /\ pc[w] = "idle"
    /\ j \in reserved[w]
    /\ reserved' = [reserved EXCEPT ![w] = @ \ {j}]
    /\ unacked' = unacked \ {j}
    /\ pc' = [pc EXCEPT ![w] = "begin"]
    /\ run' = [run EXCEPT ![w] = j]
    /\ UNCHANGED <<dbVars, qdrantVars, sending, queue, rows, ids, bounds>>

-----------------------------------------------------------------------------
(* The worker bodies.                                                      *)

Goto(w, step) == pc' = [pc EXCEPT ![w] = step]

\* Fault: the two enums are mixed up.
SetStatusSwapped(w, state, status) ==
    /\ jobState' = [jobState EXCEPT ![run[w]] = status]
    /\ docStatus' = [docStatus EXCEPT ![Doc(w)] = state]

\* Fault: the document is left as it was.
SetJobStateOnly(w, state, status) ==
    /\ jobState' = [jobState EXCEPT ![run[w]] = state]
    /\ UNCHANGED docStatus

\* A transaction that writes the state of w's job and the status of its document.
SetStatus(w, state, status) ==
    /\ jobState' = [jobState EXCEPT ![run[w]] = state]
    /\ docStatus' = [docStatus EXCEPT ![Doc(w)] = status]

Finish(w) ==
    /\ Goto(w, "idle")
    /\ run' = [run EXCEPT ![w] = None]
    /\ rows' = [rows EXCEPT ![w] = None]
    /\ ids' = [ids EXCEPT ![w] = None]

\* First transaction of process_ingestion_job.
BeginIngest(w) ==
    /\ pc[w] = "begin" /\ Kind(w) = "ingest"
    /\ SetStatus(w, "running", "processing")
    /\ Goto(w, "prepare")
    /\ UNCHANGED <<task, chunks, qdrantVars, brokerVars, run, rows, ids, bounds>>

\* First transaction of reindex_document: it also reads the committed point ids.
BeginReindex(w) ==
    /\ pc[w] = "begin" /\ Kind(w) = "reindex"
    /\ SetStatus(w, "running", "processing")
    /\ ids' = [ids EXCEPT ![w] = chunks[Doc(w)]]
    /\ Goto(w, "retrieve")
    /\ UNCHANGED <<task, chunks, qdrantVars, brokerVars, run, rows, bounds>>

\* parse, chunk_blocks and both embedders succeed.
Prepare(w) ==
    /\ pc[w] = "prepare"
    /\ Goto(w, "check")
    /\ UNCHANGED <<dbVars, qdrantVars, brokerVars, run, rows, ids, bounds>>

\* qdrant.retrieve returns the points that exist; it raises without a collection.
Retrieve(w) ==
    /\ pc[w] = "retrieve"
    /\ collection # "absent"
    /\ ids' = [ids EXCEPT ![w] = IF @ # None /\ points[@] # None THEN @ ELSE None]
    /\ Goto(w, "check")
    /\ UNCHANGED <<dbVars, qdrantVars, brokerVars, run, rows, bounds>>

RetrieveNotFound(w) ==
    /\ pc[w] = "retrieve"
    /\ collection = "absent"
    /\ Goto(w, "fail")
    /\ UNCHANGED <<dbVars, qdrantVars, brokerVars, run, rows, ids, bounds>>

\* What follows ensure_collection in each body; a reindex of nothing upserts nothing.
AfterEnsure(w) ==
    IF Kind(w) = "ingest" THEN "flush" ELSE IF ids[w] # None THEN "reupsert" ELSE "succeed"

\* ensure_collection is three calls, and the check is stale by the second.
CheckCollection(w) ==
    /\ pc[w] = "check"
    /\ Goto(w, IF collection = "absent" THEN "create" ELSE AfterEnsure(w))
    /\ UNCHANGED <<dbVars, qdrantVars, brokerVars, run, rows, ids, bounds>>

\* Fault: the tenant_id index is forgotten.
CreateCollectionOnly(w) ==
    /\ pc[w] = "create"
    /\ collection = "absent"
    /\ collection' = "bare"
    /\ \E next \in {AfterEnsure(w), "fail"} : Goto(w, next)
    /\ UNCHANGED <<dbVars, points, brokerVars, run, rows, ids, bounds>>

\* A call that took effect may still raise (a lost response): \E next.
CreateCollection(w) ==
    /\ pc[w] = "create"
    /\ collection = "absent"
    /\ collection' = "bare"
    /\ \E next \in {"payload_index", "fail"} : Goto(w, next)
    /\ UNCHANGED <<dbVars, points, brokerVars, run, rows, ids, bounds>>

CreateConflict(w) ==
    /\ pc[w] = "create"
    /\ collection # "absent"
    /\ Goto(w, "fail")
    /\ UNCHANGED <<dbVars, qdrantVars, brokerVars, run, rows, ids, bounds>>

CreatePayloadIndex(w) ==
    /\ pc[w] = "payload_index"
    /\ collection' = "indexed"
    /\ \E next \in {AfterEnsure(w), "fail"} : Goto(w, next)
    /\ UNCHANGED <<dbVars, points, brokerVars, run, rows, ids, bounds>>

-----------------------------------------------------------------------------
(* The open transaction of _index_document: flush, upsert, commit.         *)

Fresh(b) ==
    /\ points[b] = None
    /\ \A d \in Documents : chunks[d] # b
    /\ \A w \in Workers : rows[w] # b

\* Rows of d that another worker has flushed: the unique index makes w wait.
FlushedElsewhere(w) ==
    \E v \in Workers \ {w} : rows[v] # None /\ Doc(v) = Doc(w)

\* Fault: no unique index on (document_id, position).
FlushUnguarded(w) ==
    /\ pc[w] = "flush"
    /\ \E b \in Batches : Fresh(b) /\ rows' = [rows EXCEPT ![w] = b]
    /\ Goto(w, "upsert")
    /\ UNCHANGED <<dbVars, qdrantVars, brokerVars, run, ids, bounds>>

Flush(w) ==
    /\ pc[w] = "flush"
    /\ chunks[Doc(w)] = None
    /\ ~FlushedElsewhere(w)
    /\ \E b \in Batches : Fresh(b) /\ rows' = [rows EXCEPT ![w] = b]
    /\ Goto(w, "upsert")
    /\ UNCHANGED <<dbVars, qdrantVars, brokerVars, run, ids, bounds>>

\* Fault: the conflict is waited for and never reported.
FlushConflictHangs(w) ==
    /\ pc[w] = "flush"
    /\ chunks[Doc(w)] # None
    /\ FALSE
    /\ UNCHANGED vars

\* uq_chunks_document_position: the document already has committed rows.
FlushConflict(w) ==
    /\ pc[w] = "flush"
    /\ chunks[Doc(w)] # None
    /\ Goto(w, "fail")
    /\ UNCHANGED <<dbVars, qdrantVars, brokerVars, run, rows, ids, bounds>>

\* Fault: the upsert is not waited for.
UpsertUnawaited(w) ==
    /\ pc[w] = "upsert"
    /\ Goto(w, "commit")
    /\ UNCHANGED <<dbVars, qdrantVars, brokerVars, run, rows, ids, bounds>>

\* A raise closes the session, which rolls the flushed rows back.
Upsert(w) ==
    /\ pc[w] = "upsert"
    /\ points' = [points EXCEPT ![rows[w]] = Doc(w)]
    /\ \/ Goto(w, "commit") /\ UNCHANGED rows
       \/ Goto(w, "fail") /\ rows' = [rows EXCEPT ![w] = None]
    /\ UNCHANGED <<dbVars, collection, brokerVars, run, ids, bounds>>

\* Fault: the session is closed without a commit.
CommitForgotten(w) ==
    /\ pc[w] = "commit"
    /\ rows' = [rows EXCEPT ![w] = None]
    /\ Goto(w, "succeed")
    /\ UNCHANGED <<dbVars, qdrantVars, brokerVars, run, ids, bounds>>

Commit(w) ==
    /\ pc[w] = "commit"
    /\ chunks' = [chunks EXCEPT ![Doc(w)] = rows[w]]
    /\ rows' = [rows EXCEPT ![w] = None]
    /\ \E next \in {"succeed", "fail"} : Goto(w, next)
    /\ UNCHANGED <<docStatus, jobState, task, qdrantVars, brokerVars, run, ids, bounds>>

\* Fault: the points are written again under new ids.
ReupsertFresh(w) ==
    /\ pc[w] = "reupsert"
    /\ \E b \in Batches : Fresh(b) /\ points' = [points EXCEPT ![b] = Doc(w)]
    /\ \E next \in {"succeed", "fail"} : Goto(w, next)
    /\ UNCHANGED <<dbVars, collection, brokerVars, run, rows, ids, bounds>>

\* reindex_document overwrites the same ids with the payload it retrieved.
Reupsert(w) ==
    /\ pc[w] = "reupsert"
    /\ points' = [points EXCEPT ![ids[w]] = Doc(w)]
    /\ \E next \in {"succeed", "fail"} : Goto(w, next)
    /\ UNCHANGED <<dbVars, collection, brokerVars, run, rows, ids, bounds>>

\* A call raises without having taken effect.
CallFails(w) ==
    /\ pc[w] \in Fallible
    /\ Goto(w, "fail")
    /\ rows' = [rows EXCEPT ![w] = None]
    /\ UNCHANGED <<dbVars, qdrantVars, brokerVars, run, ids, bounds>>

\* Fault: the failure is raised and not recorded.
FailUnrecorded(w) ==
    /\ pc[w] = "fail"
    /\ Finish(w)
    /\ UNCHANGED <<dbVars, qdrantVars, brokerVars, bounds>>

\* The except branch of both bodies: record the failure, then re-raise.
Fail(w) ==
    /\ pc[w] = "fail"
    /\ SetStatus(w, "failed", "failed")
    /\ Finish(w)
    /\ UNCHANGED <<task, chunks, qdrantVars, brokerVars, bounds>>

\* The last transaction of both bodies.
Succeed(w) ==
    /\ pc[w] = "succeed"
    /\ SetStatus(w, "succeeded", "ready")
    /\ Finish(w)
    /\ UNCHANGED <<task, chunks, qdrantVars, brokerVars, bounds>>

\* The worker process dies, with or without the messages it had reserved, or a
\* status transaction, which no handler surrounds, raises.  Postgres rolls back.
Lose(w) ==
    /\ crashes < MaxCrashes
    /\ pc[w] # "idle" \/ reserved[w] # {}
    /\ crashes' = crashes + 1
    /\ \/ UNCHANGED reserved
       \/ reserved' = [reserved EXCEPT ![w] = {}]
    /\ Finish(w)
    /\ UNCHANGED <<dbVars, qdrantVars, sending, queue, unacked, duplicates>>

-----------------------------------------------------------------------------
Progress(w) ==
    \/ BeginIngest(w) \/ BeginReindex(w)
    \/ Prepare(w) \/ Retrieve(w) \/ RetrieveNotFound(w)
    \/ CheckCollection(w) \/ CreateCollection(w) \/ CreateConflict(w)
    \/ CreatePayloadIndex(w)
    \/ Flush(w) \/ FlushConflict(w) \/ Upsert(w) \/ Commit(w) \/ Reupsert(w)
    \/ Fail(w) \/ Succeed(w)

Next ==
    \/ \E d \in Documents, j \in Jobs : Ingest(d, j) \/ Reingest(d, j)
    \/ \E j \in Jobs : Enqueue(j) \/ EnqueueFails(j) \/ Redeliver(j)
    \/ \E w \in Workers, j \in Jobs : Receive(w, j) \/ Acknowledge(w, j)
    \/ \E w \in Workers : Progress(w) \/ CallFails(w) \/ Lose(w)

Spec == Init /\ [][Next]_vars

\* The event loop finishes the handlers it started, Redis delivers and restores
\* messages, and live workers take and run them.  Nothing makes a client call,
\* and nothing makes a call fail.
Fairness ==
    /\ \A j \in Jobs : WF_vars(Enqueue(j)) /\ WF_vars(Redeliver(j) /\ ~Held(j))
    /\ WF_vars(\E w \in Workers, j \in Jobs : Receive(w, j))
    /\ \A w \in Workers :
        /\ WF_vars(\E j \in Jobs : Acknowledge(w, j))
        /\ WF_vars(Progress(w))

FairSpec == Spec /\ Fairness
-----------------------------------------------------------------------------
(* Properties.                                                             *)

TypeOK ==
    /\ docStatus \in [Documents -> DocumentStatus \cup {"absent"}]
    /\ jobState \in [Jobs -> IngestionState \cup {"absent"}]
    /\ task \in [Jobs -> Task \cup {None}]
    /\ chunks \in [Documents -> Batches \cup {None}]
    /\ points \in [Batches -> Documents \cup {None}]
    /\ collection \in {"absent", "bare", "indexed"}
    /\ sending \subseteq Jobs /\ queue \subseteq Jobs /\ unacked \subseteq Jobs
    /\ reserved \in [Workers -> SUBSET Jobs]
    /\ pc \in [Workers -> Steps]
    /\ run \in [Workers -> Jobs \cup {None}]
    /\ rows \in [Workers -> Batches \cup {None}]
    /\ ids \in [Workers -> Batches \cup {None}]
    /\ duplicates \in 0 .. MaxDuplicates
    /\ crashes \in 0 .. MaxCrashes

JobsOf(d) == {j \in Jobs : task[j] # None /\ task[j].doc = d}

Terminal(j) == jobState[j] \in {"succeeded", "failed"}

\* Somebody still has the job: its route, the broker or a worker.
InFlight(j) ==
    \/ j \in sending \cup queue \cup unacked
    \/ \E w \in Workers : j \in reserved[w] \/ run[w] = j

Stranded(j) == jobState[j] \in {"queued", "running"} /\ ~InFlight(j)

\* Chunk rows a reader can see always have their points in Qdrant: the upsert
\* comes before the commit in _index_document, and both stores agree on the ids.
ChunksAreIndexed ==
    \A d \in Documents : chunks[d] # None => points[chunks[d]] = d

\* The status of a document is the state of one of its jobs, whatever interleaving
\* of jobs, redeliveries and losses wrote them (ingest, reingest and the workers).
Mirrors(status, state) ==
    <<status, state>> \in {<<"pending", "queued">>, <<"processing", "running">>,
                           <<"ready", "succeeded">>, <<"failed", "failed">>}

StatusMirrorsAJob ==
    \A d \in Documents : docStatus[d] # "absent" =>
        \E j \in JobsOf(d) : Mirrors(docStatus[d], jobState[j])

\* What GET /ingest/{id} shows of a SUCCEEDED upload: its chunk_count is positive
\* and the chunks can be retrieved.
Searchable == {d \in Documents : chunks[d] # None /\ points[chunks[d]] = d}

SucceededIngestIsSearchable ==
    \A j \in Jobs : jobState[j] = "succeeded" /\ task[j].kind = "ingest" =>
        task[j].doc \in Searchable

\* Delivered at most once, a SUCCEEDED upload has left no point but those of its
\* chunk rows: the failures that strand points in Qdrant all fail the job.
PointsOf(d) == {b \in Batches : points[b] = d}

SucceededIngestLeftNoStrays ==
    \A j \in Jobs : jobState[j] = "succeeded" /\ task[j].kind = "ingest" =>
        PointsOf(task[j].doc) = {chunks[task[j].doc]}

\* Delivered at most once, a collection lacks its tenant_id index only while its
\* creator is about to add it, or because a job failed or was lost there.
BareCollectionHasACause ==
    collection = "bare" =>
        \/ \E w \in Workers : pc[w] \in {"payload_index", "fail"}
        \/ \E j \in Jobs : jobState[j] = "failed" \/ Stranded(j)

\* uq_chunks_document_position against redelivered uploads: the chunk rows of a
\* document, once committed, are never replaced or doubled.
ChunksNeverReplaced ==
    [][\A d \in Documents : chunks[d] # None => chunks'[d] = chunks[d]]_vars

\* Delivered at most once, a job a client has seen end never changes again.
TerminalIsFinal ==
    [][\A j \in Jobs : Terminal(j) => jobState'[j] = jobState[j]]_vars

\* Without losses every job a route created reaches SUCCEEDED or FAILED: no worker
\* waits for ever on the unique index, and every failure is recorded.
JobsTerminate == \A j \in Jobs : jobState[j] = "queued" ~> Terminal(j) \/ crashes > 0

\* Losses and redeliveries included, nothing keeps a job for ever.
JobsSettle == \A j \in Jobs : InFlight(j) ~> ~InFlight(j)

\* What database/models.py says of DocumentStatus.READY: chunked + indexed,
\* queryable.
ReadyIsQueryable == \A d \in Documents : docStatus[d] = "ready" => d \in Searchable

\* What the docstring of vectorstore/qdrant.py:delete_points says happens when the
\* commit fails after the upsert: once no job holds the document, the points left
\* in Qdrant are those of its chunk rows.
FailedUpsertsAreCleanedUp ==
    \A d \in Documents :
        (\A j \in JobsOf(d) : ~InFlight(j)) => PointsOf(d) \subseteq {chunks[d]}

\* Delivered at most once, uploads and reindex runs behave as if each job had
\* indexed its document in one atomic step.
Contract == INSTANCE IngestionContract WITH searchable <- Searchable

ImplementsContract == Contract!Spec
=============================================================================
