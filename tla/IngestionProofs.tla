--------------------------- MODULE IngestionProofs ---------------------------
(***************************************************************************)
(* Theorems about Ingestion, for any documents, jobs, workers and batches  *)
(* and any number of redeliveries and losses.                              *)
(*                                                                         *)
(* The inductive invariant IInv adds to the properties what ties a worker  *)
(* to the rows it works on: which batch it holds at which step, and that   *)
(* no two uncommitted or committed batches are the same.                   *)
(***************************************************************************)
EXTENDS Ingestion, TLAPS

\* Every job row, and every message of it wherever it is, has its task.
Tasked ==
    /\ \A j \in Jobs : task[j] = None <=> jobState[j] = "absent"
    /\ \A j \in sending \cup queue \cup unacked : task[j] # None
    /\ \A w \in Workers : \A j \in reserved[w] : task[j] # None
    /\ \A w \in Workers : run[w] # None => task[run[w]] # None

\* The steps each task passes through.
IngestOnly  == {"prepare", "flush", "upsert", "commit"}
ReindexOnly == {"retrieve", "reupsert"}

AtItsStep ==
    \A w \in Workers :
        /\ pc[w] = "idle" <=> run[w] = None
        /\ pc[w] \in IngestOnly => Kind(w) = "ingest"
        /\ pc[w] \in ReindexOnly => Kind(w) = "reindex"
        /\ rows[w] # None <=> pc[w] \in {"upsert", "commit"}
        /\ pc[w] = "reupsert" => ids[w] # None
        /\ ids[w] # None => run[w] # None /\ ids[w] = chunks[Doc(w)]

\* Batches are fresh uuid4s, and the unique index admits one open batch per document.
Uncommitted ==
    \A w \in Workers : rows[w] # None =>
        /\ chunks[Doc(w)] = None
        /\ \A d \in Documents : chunks[d] # rows[w]
        /\ \A v \in Workers \ {w} : rows[v] # None => rows[v] # rows[w] /\ Doc(v) # Doc(w)
        /\ pc[w] = "commit" => points[rows[w]] = Doc(w)

\* A worker past its commit, and a job past its worker, left rows behind.
Indexed ==
    /\ \A w \in Workers : pc[w] = "succeed" /\ Kind(w) = "ingest" => chunks[Doc(w)] # None
    /\ \A j \in Jobs : jobState[j] = "succeeded" /\ task[j].kind = "ingest" =>
        chunks[task[j].doc] # None

IInv ==
    /\ TypeOK
    /\ Tasked
    /\ AtItsStep
    /\ Uncommitted
    /\ Indexed
    /\ ChunksAreIndexed
    /\ StatusMirrorsAJob

-----------------------------------------------------------------------------
\* The steps between two transactions that only move a worker on, and may create
\* the collection: Prepare, CheckCollection, CreateCollection and their failures.
Move(w, next) ==
    /\ pc[w] \notin {"idle", "begin", "upsert", "commit"}
    /\ next \notin {"idle", "begin", "prepare", "retrieve", "upsert", "commit"}
    /\ next = "flush" => Kind(w) = "ingest"
    /\ next = "reupsert" => Kind(w) = "reindex" /\ ids[w] # None
    /\ next = "succeed" => Kind(w) = "reindex"
    /\ Goto(w, next)
    /\ collection' \in {"absent", "bare", "indexed"}
    /\ UNCHANGED <<dbVars, points, brokerVars, run, rows, ids, bounds>>

\* A route adds a job: its id is new, so no worker and no message has it.
LEMMA CreateJobStep ==
    ASSUME IInv, NEW d \in Documents, NEW j \in Jobs, NEW kind \in {"ingest", "reindex"}, CreateJob(d, j, kind)
    PROVE  IInv'
<1>1. TypeOK'
  BY DEF IInv, Task, qdrantVars, workerVars, bounds, DocumentStatus, IngestionState,
      CreateJob, TypeOK
<1>2. Tasked'
  BY IngestionAssumption DEF IInv, Task, workerVars, CreateJob, TypeOK, Tasked
<1>3. AtItsStep'
  BY DEF IInv, workerVars, Doc, Kind, CreateJob, Tasked, IngestOnly, ReindexOnly,
      AtItsStep
<1>4. Uncommitted'
  BY DEF IInv, qdrantVars, workerVars, Doc, CreateJob, Tasked, AtItsStep, Uncommitted
<1>5. Indexed'
  BY DEF IInv, workerVars, Doc, Kind, CreateJob, Tasked, AtItsStep, Indexed
<1>6. StatusMirrorsAJob'
  BY IngestionAssumption DEF IInv, Task, CreateJob, TypeOK, JobsOf, Mirrors,
      StatusMirrorsAJob
<1>7. ChunksAreIndexed'
  BY DEF IInv, CreateJob, qdrantVars, ChunksAreIndexed
<1> QED BY <1>1, <1>2, <1>3, <1>4, <1>5, <1>6, <1>7 DEF IInv

\* delay() moves a message whose job has its task.
LEMMA EnqueueStep ==
    ASSUME IInv, NEW j \in Jobs, Enqueue(j)
    PROVE  IInv'
<1>1. TypeOK'
  BY DEF IInv, dbVars, qdrantVars, workerVars, bounds, Enqueue, TypeOK
<1>2. Tasked'
  BY DEF IInv, dbVars, workerVars, Enqueue, Tasked
<1>3. AtItsStep' /\ Uncommitted' /\ Indexed' /\ ChunksAreIndexed' /\ StatusMirrorsAJob'
  BY DEF IInv, Enqueue, dbVars, qdrantVars, workerVars, AtItsStep, Kind, Doc,
      Uncommitted, Indexed, ChunksAreIndexed, StatusMirrorsAJob, JobsOf
<1> QED BY <1>1, <1>2, <1>3 DEF IInv

\* A message that is never sent takes nothing else with it.
LEMMA EnqueueFailsStep ==
    ASSUME IInv, NEW j \in Jobs, EnqueueFails(j)
    PROVE  IInv'
<1>1. TypeOK'
  BY IngestionAssumption DEF IInv, dbVars, qdrantVars, workerVars, EnqueueFails, TypeOK
<1>2. Tasked'
  BY DEF IInv, dbVars, workerVars, EnqueueFails, Tasked
<1>3. AtItsStep' /\ Uncommitted' /\ Indexed' /\ ChunksAreIndexed' /\ StatusMirrorsAJob'
  BY DEF IInv, EnqueueFails, dbVars, qdrantVars, workerVars, AtItsStep, Kind, Doc,
      Uncommitted, Indexed, ChunksAreIndexed, StatusMirrorsAJob, JobsOf
<1> QED BY <1>1, <1>2, <1>3 DEF IInv

\* A redelivery moves a message.
LEMMA RedeliverStep ==
    ASSUME IInv, NEW j \in Jobs, Redeliver(j)
    PROVE  IInv'
<1>1. TypeOK'
  BY IngestionAssumption DEF IInv, dbVars, qdrantVars, workerVars, Redeliver, TypeOK
<1>2. Tasked'
  BY DEF IInv, dbVars, workerVars, Redeliver, Tasked
<1>3. AtItsStep' /\ Uncommitted' /\ Indexed' /\ ChunksAreIndexed' /\ StatusMirrorsAJob'
  BY DEF IInv, Redeliver, dbVars, qdrantVars, workerVars, AtItsStep, Kind, Doc,
      Uncommitted, Indexed, ChunksAreIndexed, StatusMirrorsAJob, JobsOf
<1> QED BY <1>1, <1>2, <1>3 DEF IInv

\* A worker prefetches a message.
LEMMA ReceiveStep ==
    ASSUME IInv, NEW w \in Workers, NEW j \in Jobs, Receive(w, j)
    PROVE  IInv'
<1>1. TypeOK'
  BY DEF IInv, dbVars, qdrantVars, workerVars, bounds, Receive, TypeOK
<1>2. Tasked'
  BY DEF IInv, dbVars, workerVars, Receive, Tasked
<1>3. AtItsStep' /\ Uncommitted' /\ Indexed' /\ ChunksAreIndexed' /\ StatusMirrorsAJob'
  BY DEF IInv, Receive, dbVars, qdrantVars, workerVars, AtItsStep, Kind, Doc,
      Uncommitted, Indexed, ChunksAreIndexed, StatusMirrorsAJob, JobsOf
<1> QED BY <1>1, <1>2, <1>3 DEF IInv

\* An idle worker holds no batch when it takes a job.
LEMMA AcknowledgeStep ==
    ASSUME IInv, NEW w \in Workers, NEW j \in Jobs, Acknowledge(w, j)
    PROVE  IInv'
<1>1. TypeOK'
  BY DEF IInv, dbVars, qdrantVars, bounds, Steps, Acknowledge, TypeOK
<1>2. Tasked'
  BY DEF IInv, dbVars, Acknowledge, Tasked
<1>3. AtItsStep'
  BY IngestionAssumption DEF IInv, dbVars, Doc, Kind, Acknowledge, TypeOK, IngestOnly,
      ReindexOnly, AtItsStep
<1>4. Uncommitted'
  BY DEF IInv, dbVars, qdrantVars, Doc, Acknowledge, AtItsStep, Uncommitted
<1>5. Indexed'
  BY DEF IInv, dbVars, Doc, Kind, Acknowledge, Indexed
<1>6. ChunksAreIndexed' /\ StatusMirrorsAJob'
  BY DEF IInv, Acknowledge, dbVars, qdrantVars, ChunksAreIndexed, StatusMirrorsAJob,
      JobsOf
<1> QED BY <1>1, <1>2, <1>3, <1>4, <1>5, <1>6 DEF IInv

\* The first transaction of an upload writes a job and its document together.
LEMMA BeginIngestStep ==
    ASSUME IInv, NEW w \in Workers, BeginIngest(w)
    PROVE  IInv'
<1>1. TypeOK'
  BY DEF IInv, Task, qdrantVars, brokerVars, bounds, DocumentStatus, IngestionState,
      Fallible, Steps, Doc, Goto, SetStatus, BeginIngest, TypeOK, Tasked, AtItsStep
<1>2. Tasked'
  BY DEF IInv, brokerVars, SetStatus, BeginIngest, Tasked, AtItsStep
<1>3. AtItsStep'
  BY DEF IInv, Doc, Kind, Goto, BeginIngest, ReindexOnly, AtItsStep
<1>4. Uncommitted'
  BY DEF IInv, qdrantVars, Doc, Goto, BeginIngest, Uncommitted
<1>5. Indexed'
  BY DEF IInv, Doc, Kind, Goto, SetStatus, BeginIngest, Indexed
<1>6. StatusMirrorsAJob'
  BY DEF IInv, Doc, SetStatus, BeginIngest, TypeOK, JobsOf, Mirrors, StatusMirrorsAJob,
      Tasked, AtItsStep
<1>7. ChunksAreIndexed'
  BY DEF IInv, BeginIngest, qdrantVars, ChunksAreIndexed
<1> QED BY <1>1, <1>2, <1>3, <1>4, <1>5, <1>6, <1>7 DEF IInv

\* The first transaction of a reindex reads ids that are in Qdrant.
LEMMA BeginReindexStep ==
    ASSUME IInv, NEW w \in Workers, BeginReindex(w)
    PROVE  IInv'
<1>1. TypeOK'
  BY DEF IInv, Task, qdrantVars, brokerVars, bounds, DocumentStatus, IngestionState,
      Fallible, Steps, Doc, Goto, SetStatus, BeginReindex, TypeOK, Tasked, AtItsStep
<1>2. Tasked'
  BY DEF IInv, brokerVars, SetStatus, BeginReindex, Tasked, AtItsStep
<1>3. AtItsStep'
  BY DEF IInv, Doc, Kind, Goto, BeginReindex, IngestOnly, AtItsStep
<1>4. Uncommitted'
  BY DEF IInv, qdrantVars, Doc, Goto, BeginReindex, Uncommitted
<1>5. Indexed'
  BY DEF IInv, Doc, Kind, Goto, SetStatus, BeginReindex, Indexed
<1>6. StatusMirrorsAJob'
  BY DEF IInv, Doc, SetStatus, BeginReindex, TypeOK, JobsOf, Mirrors, StatusMirrorsAJob,
      Tasked, AtItsStep
<1>7. ChunksAreIndexed'
  BY DEF IInv, BeginReindex, qdrantVars, ChunksAreIndexed
<1> QED BY <1>1, <1>2, <1>3, <1>4, <1>5, <1>6, <1>7 DEF IInv

\* What a reindex retrieved is still what its document's rows name.
LEMMA RetrieveStep ==
    ASSUME IInv, NEW w \in Workers, Retrieve(w)
    PROVE  IInv'
<1>1. TypeOK'
  BY DEF IInv, dbVars, qdrantVars, brokerVars, bounds, Fallible, Steps, Goto, Retrieve,
      TypeOK
<1>2. AtItsStep'
  BY DEF IInv, dbVars, Doc, Kind, Goto, Retrieve, IngestOnly, ReindexOnly, AtItsStep
<1>3. Uncommitted'
  BY DEF IInv, dbVars, qdrantVars, Doc, Goto, Retrieve, Uncommitted
<1>4. Indexed'
  BY DEF IInv, dbVars, Doc, Kind, Goto, Retrieve, Indexed
<1>5. Tasked' /\ ChunksAreIndexed' /\ StatusMirrorsAJob'
  BY DEF IInv, Retrieve, dbVars, qdrantVars, brokerVars, Tasked, ChunksAreIndexed,
      StatusMirrorsAJob, JobsOf
<1> QED BY <1>1, <1>2, <1>3, <1>4, <1>5 DEF IInv

\* Moving on, or creating the collection, touches neither store's chunks.
LEMMA MoveStep ==
    ASSUME IInv, NEW w \in Workers, NEW next \in Steps, Move(w, next)
    PROVE  IInv'
<1>1. TypeOK'
  BY DEF IInv, dbVars, brokerVars, bounds, Goto, TypeOK, Move
<1>2. AtItsStep'
  BY DEF IInv, dbVars, Doc, Kind, Goto, IngestOnly, ReindexOnly, AtItsStep, Move
<1>3. Uncommitted'
  BY DEF IInv, dbVars, Doc, Goto, Uncommitted, Move
<1>4. Indexed'
  BY DEF IInv, dbVars, Doc, Kind, Goto, Indexed, Move
<1>5. Tasked' /\ ChunksAreIndexed' /\ StatusMirrorsAJob'
  BY DEF IInv, Move, dbVars, brokerVars, Tasked, ChunksAreIndexed, StatusMirrorsAJob,
      JobsOf
<1> QED BY <1>1, <1>2, <1>3, <1>4, <1>5 DEF IInv

\* The batch flushed is fresh, and its document has no rows, open or committed.
LEMMA FlushStep ==
    ASSUME IInv, NEW w \in Workers, Flush(w)
    PROVE  IInv'
<1>1. TypeOK'
  BY DEF IInv, dbVars, qdrantVars, brokerVars, bounds, Fallible, Steps, Goto, Flush,
      TypeOK
<1>2. AtItsStep'
  BY DEF IInv, dbVars, Doc, Kind, Goto, Fresh, Flush, TypeOK, IngestOnly, ReindexOnly,
      AtItsStep
<1>3. Uncommitted'
  BY DEF IInv, dbVars, qdrantVars, Doc, Goto, Fresh, FlushedElsewhere, Flush,
      Uncommitted
<1>4. Indexed'
  BY DEF IInv, dbVars, Doc, Kind, Goto, Flush, Indexed
<1>5. Tasked' /\ ChunksAreIndexed' /\ StatusMirrorsAJob'
  BY DEF IInv, Flush, dbVars, qdrantVars, brokerVars, Tasked, ChunksAreIndexed,
      StatusMirrorsAJob, JobsOf
<1> QED BY <1>1, <1>2, <1>3, <1>4, <1>5 DEF IInv

\* The upsert writes points no committed row names.
LEMMA UpsertStep ==
    ASSUME IInv, NEW w \in Workers, Upsert(w)
    PROVE  IInv'
<1>1. TypeOK'
  BY DEF IInv, Task, dbVars, brokerVars, bounds, Fallible, Steps, Doc, Goto, Upsert,
      TypeOK, JobsOf, Mirrors, Tasked, AtItsStep
<1>2. AtItsStep'
  BY DEF IInv, dbVars, Doc, Kind, Goto, Upsert, TypeOK, IngestOnly, ReindexOnly,
      AtItsStep
<1>3. Uncommitted'
  BY DEF IInv, dbVars, Doc, Goto, Upsert, TypeOK, Uncommitted
<1>4. Indexed'
  BY DEF IInv, dbVars, Doc, Kind, Goto, Upsert, TypeOK, Indexed
<1>5. ChunksAreIndexed'
  BY DEF IInv, dbVars, Upsert, ChunksAreIndexed, Uncommitted
<1>6. Tasked' /\ StatusMirrorsAJob'
  BY DEF IInv, Upsert, dbVars, brokerVars, Tasked, StatusMirrorsAJob, JobsOf
<1> QED BY <1>1, <1>2, <1>3, <1>4, <1>5, <1>6 DEF IInv

\* The commit publishes rows whose points are in Qdrant.
LEMMA CommitStep ==
    ASSUME IInv, NEW w \in Workers, Commit(w)
    PROVE  IInv'
<1>1. TypeOK'
  BY DEF IInv, Task, qdrantVars, brokerVars, bounds, Steps, Doc, Goto, Commit, TypeOK,
      Tasked, AtItsStep
<1>2. AtItsStep'
  BY DEF IInv, Doc, Kind, Goto, Commit, TypeOK, IngestOnly, ReindexOnly, AtItsStep,
      Uncommitted
<1>3. Uncommitted'
  BY DEF IInv, qdrantVars, Doc, Goto, Commit, TypeOK, Uncommitted
<1>4. Indexed'
  BY DEF IInv, Task, Doc, Kind, Goto, Commit, TypeOK, Tasked, AtItsStep, Indexed
<1>5. ChunksAreIndexed'
  BY DEF IInv, qdrantVars, Commit, ChunksAreIndexed, Uncommitted
<1>6. Tasked' /\ StatusMirrorsAJob'
  BY DEF IInv, Commit, brokerVars, Tasked, StatusMirrorsAJob, JobsOf
<1> QED BY <1>1, <1>2, <1>3, <1>4, <1>5, <1>6 DEF IInv

\* A reindex overwrites the points of its own document.
LEMMA ReupsertStep ==
    ASSUME IInv, NEW w \in Workers, Reupsert(w)
    PROVE  IInv'
<1>1. TypeOK'
  BY DEF IInv, Task, dbVars, brokerVars, bounds, Steps, Doc, Goto, Reupsert, TypeOK,
      Tasked, AtItsStep
<1>2. AtItsStep'
  BY DEF IInv, dbVars, Doc, Kind, Goto, Reupsert, IngestOnly, ReindexOnly, AtItsStep
<1>3. Uncommitted'
  BY DEF IInv, Task, dbVars, Doc, Goto, Reupsert, TypeOK, Tasked, AtItsStep, Uncommitted
<1>4. Indexed'
  BY DEF IInv, dbVars, Doc, Kind, Goto, Reupsert, AtItsStep, Indexed
<1>5. ChunksAreIndexed'
  BY DEF IInv, Task, dbVars, Doc, Reupsert, TypeOK, ChunksAreIndexed, Tasked, AtItsStep
<1>6. Tasked' /\ StatusMirrorsAJob'
  BY DEF IInv, Reupsert, dbVars, brokerVars, Tasked, StatusMirrorsAJob, JobsOf
<1> QED BY <1>1, <1>2, <1>3, <1>4, <1>5, <1>6 DEF IInv

\* A failed call rolls back at most an open batch.
LEMMA CallFailsStep ==
    ASSUME IInv, NEW w \in Workers, CallFails(w)
    PROVE  IInv'
<1>1. TypeOK'
  BY DEF IInv, dbVars, qdrantVars, brokerVars, bounds, Steps, Goto, CallFails, TypeOK
<1>2. AtItsStep'
  BY DEF IInv, dbVars, Fallible, Doc, Kind, Goto, CallFails, TypeOK, IngestOnly,
      ReindexOnly, AtItsStep
<1>3. Uncommitted'
  BY DEF IInv, dbVars, qdrantVars, Doc, Goto, CallFails, Uncommitted
<1>4. Indexed'
  BY DEF IInv, dbVars, Doc, Kind, Goto, CallFails, Indexed
<1>5. Tasked' /\ ChunksAreIndexed' /\ StatusMirrorsAJob'
  BY DEF IInv, CallFails, dbVars, qdrantVars, brokerVars, Tasked, ChunksAreIndexed,
      StatusMirrorsAJob, JobsOf
<1> QED BY <1>1, <1>2, <1>3, <1>4, <1>5 DEF IInv

\* The except branch writes a job and its document together.
LEMMA FailStep ==
    ASSUME IInv, NEW w \in Workers, Fail(w)
    PROVE  IInv'
<1>1. TypeOK'
  BY DEF IInv, Task, qdrantVars, brokerVars, bounds, DocumentStatus, IngestionState,
      Steps, Doc, Goto, SetStatus, Finish, Fail, TypeOK, Tasked, AtItsStep
<1>2. Tasked'
  BY DEF IInv, brokerVars, SetStatus, Finish, Fail, Tasked, AtItsStep
<1>3. AtItsStep'
  BY DEF IInv, Doc, Kind, Goto, Finish, Fail, TypeOK, IngestOnly, ReindexOnly, AtItsStep
<1>4. Uncommitted'
  BY DEF IInv, qdrantVars, Doc, Goto, Finish, Fail, AtItsStep, Uncommitted
<1>5. Indexed'
  BY DEF IInv, Doc, Kind, Goto, SetStatus, Finish, Fail, Indexed
<1>6. StatusMirrorsAJob'
  BY DEF IInv, Doc, SetStatus, Fail, TypeOK, JobsOf, Mirrors, StatusMirrorsAJob, Tasked,
      AtItsStep
<1>7. ChunksAreIndexed'
  BY DEF IInv, Fail, qdrantVars, ChunksAreIndexed
<1> QED BY <1>1, <1>2, <1>3, <1>4, <1>5, <1>6, <1>7 DEF IInv

\* The last transaction of an upload comes after its commit.
LEMMA SucceedStep ==
    ASSUME IInv, NEW w \in Workers, Succeed(w)
    PROVE  IInv'
<1>1. TypeOK'
  BY DEF IInv, Task, qdrantVars, brokerVars, bounds, DocumentStatus, IngestionState,
      Steps, Doc, Goto, SetStatus, Finish, Succeed, TypeOK, Tasked, AtItsStep
<1>2. Tasked'
  BY DEF IInv, brokerVars, SetStatus, Finish, Succeed, Tasked, AtItsStep
<1>3. AtItsStep'
  BY DEF IInv, Doc, Kind, Goto, Finish, Succeed, TypeOK, IngestOnly, ReindexOnly,
      AtItsStep
<1>4. Uncommitted'
  BY DEF IInv, qdrantVars, Doc, Goto, Finish, Succeed, AtItsStep, Uncommitted
<1>5. Indexed'
  BY DEF IInv, Doc, Kind, Goto, SetStatus, Finish, Succeed, TypeOK, Indexed
<1>6. StatusMirrorsAJob'
  BY DEF IInv, Doc, SetStatus, Succeed, TypeOK, JobsOf, Mirrors, StatusMirrorsAJob,
      Tasked, AtItsStep
<1>7. ChunksAreIndexed'
  BY DEF IInv, Succeed, qdrantVars, ChunksAreIndexed
<1> QED BY <1>1, <1>2, <1>3, <1>4, <1>5, <1>6, <1>7 DEF IInv

\* A lost worker leaves no open batch behind.
LEMMA LoseStep ==
    ASSUME IInv, NEW w \in Workers, Lose(w)
    PROVE  IInv'
<1>1. TypeOK'
  BY IngestionAssumption DEF IInv, dbVars, qdrantVars, Steps, Goto, Finish, Lose, TypeOK
<1>2. Tasked'
  BY DEF IInv, dbVars, Finish, Lose, TypeOK, Tasked
<1>3. AtItsStep'
  BY DEF IInv, dbVars, Doc, Kind, Goto, Finish, Lose, TypeOK, IngestOnly, ReindexOnly,
      AtItsStep
<1>4. Uncommitted'
  BY DEF IInv, dbVars, qdrantVars, Doc, Goto, Finish, Lose, TypeOK, Uncommitted
<1>5. Indexed'
  BY DEF IInv, dbVars, Doc, Kind, Goto, Finish, Lose, TypeOK, Indexed
<1>6. ChunksAreIndexed' /\ StatusMirrorsAJob'
  BY DEF IInv, Lose, dbVars, qdrantVars, ChunksAreIndexed, StatusMirrorsAJob, JobsOf
<1> QED BY <1>1, <1>2, <1>3, <1>4, <1>5, <1>6 DEF IInv

-----------------------------------------------------------------------------
\* The invariant holds initially.
LEMMA InitIInv == Init => IInv
  BY IngestionAssumption
  DEF Init, IInv, TypeOK, Tasked, AtItsStep, Uncommitted, Indexed, ChunksAreIndexed,
      StatusMirrorsAJob, DocumentStatus, IngestionState, Steps, Fallible, IngestOnly, ReindexOnly

\* The steps of a worker that only move it on are instances of Move.
LEMMA ProgressStep ==
    ASSUME IInv, NEW w \in Workers, Progress(w)
    PROVE  IInv'
<1> USE DEF IInv, TypeOK, AtItsStep, IngestOnly, ReindexOnly, Steps, Fallible
<1>1. ASSUME NEW next \in Steps, Move(w, next)
      PROVE  IInv'
  BY <1>1, MoveStep
<1>2. CASE Prepare(w)
  BY <1>1, <1>2 DEF Prepare, Move, qdrantVars
<1>3. CASE RetrieveNotFound(w)
  BY <1>1, <1>3 DEF RetrieveNotFound, Move, qdrantVars
<1>4. CASE CheckCollection(w)
  BY <1>1, <1>4 DEF CheckCollection, Move, AfterEnsure, Kind, Tasked, Task, qdrantVars
<1>5. CASE CreateCollection(w)
  BY <1>1, <1>5 DEF CreateCollection, Move
<1>6. CASE CreateConflict(w)
  BY <1>1, <1>6 DEF CreateConflict, Move, qdrantVars
<1>7. CASE CreatePayloadIndex(w)
  BY <1>1, <1>7 DEF CreatePayloadIndex, Move, AfterEnsure, Kind, Tasked, Task
<1>8. CASE FlushConflict(w)
  BY <1>1, <1>8 DEF FlushConflict, Move, qdrantVars
<1> QED
  BY ONLY Progress(w), <1>2, <1>3, <1>4, <1>5, <1>6, <1>7, <1>8, IInv, w \in Workers,
     BeginIngestStep, BeginReindexStep, RetrieveStep, FlushStep, UpsertStep, CommitStep,
     ReupsertStep, FailStep, SucceedStep
  DEF Progress

\* Every step of the system preserves the invariant.
LEMMA NextIInv == IInv /\ [Next]_vars => IInv'
<1> SUFFICES ASSUME IInv, [Next]_vars
             PROVE  IInv'
  OBVIOUS
<1>1. ASSUME NEW d \in Documents, NEW j \in Jobs, Ingest(d, j) \/ Reingest(d, j)
      PROVE  IInv'
  BY <1>1, CreateJobStep DEF Ingest, Reingest
<1>2. ASSUME NEW j \in Jobs, Enqueue(j) \/ EnqueueFails(j) \/ Redeliver(j)
      PROVE  IInv'
  BY <1>2, EnqueueStep, EnqueueFailsStep, RedeliverStep
<1>3. ASSUME NEW w \in Workers, NEW j \in Jobs, Receive(w, j) \/ Acknowledge(w, j)
      PROVE  IInv'
  BY <1>3, ReceiveStep, AcknowledgeStep
<1>4. ASSUME NEW w \in Workers, Progress(w) \/ CallFails(w) \/ Lose(w)
      PROVE  IInv'
  BY <1>4, ProgressStep, CallFailsStep, LoseStep
<1>5. CASE UNCHANGED vars
  BY <1>5
  DEF vars, dbVars, qdrantVars, brokerVars, workerVars, bounds, IInv, TypeOK, Tasked,
      AtItsStep, Uncommitted, Indexed, ChunksAreIndexed, StatusMirrorsAJob, JobsOf, Doc, Kind
<1> QED
  BY <1>1, <1>2, <1>3, <1>4, <1>5 DEF Next

\* The invariant of the pipeline, whatever is lost, redelivered or run at once.
THEOREM Invariance == Spec => []IInv
<1> QED BY InitIInv, NextIInv, PTL DEF Spec

\* Every variable keeps its type; the counters keep their bounds.
THEOREM TypeCorrect == Spec => []TypeOK
<1>1. IInv => TypeOK
  BY DEF IInv
<1> QED BY <1>1, Invariance, PTL

\* Committed chunk rows always have their points in Qdrant, under their document.
THEOREM CommittedMeansIndexed == Spec => []ChunksAreIndexed
<1>1. IInv => ChunksAreIndexed
  BY DEF IInv
<1> QED BY <1>1, Invariance, PTL

\* The status of a document is always the state of one of its jobs.
THEOREM StatusHasAJob == Spec => []StatusMirrorsAJob
<1>1. IInv => StatusMirrorsAJob
  BY DEF IInv
<1> QED BY <1>1, Invariance, PTL

\* A job that a client sees SUCCEEDED for an upload has its chunks in both stores.
THEOREM SucceededMeansSearchable == Spec => []SucceededIngestIsSearchable
<1>1. IInv => SucceededIngestIsSearchable
  BY DEF IInv, TypeOK, Tasked, Indexed, ChunksAreIndexed, SucceededIngestIsSearchable,
         Searchable, Task
<1> QED BY <1>1, Invariance, PTL

\* Committed chunk rows are never replaced, by a redelivered upload or a reindex:
\* the only writer of chunk rows commits for a document that has none.
THEOREM ChunksStay == Spec => ChunksNeverReplaced
<1>1. ASSUME IInv, [Next]_vars, NEW d \in Documents, chunks[d] # None
      PROVE  chunks'[d] = chunks[d]
  <2>1. CASE chunks' = chunks
    BY <2>1
  <2>2. ASSUME NEW w \in Workers, Commit(w)
        PROVE  chunks'[d] = chunks[d]
    BY <1>1, <2>2 DEF IInv, TypeOK, AtItsStep, Uncommitted, Commit
  <2>3. CASE UNCHANGED vars
    BY <2>3 DEF vars, dbVars
  <2> QED
    BY <1>1, <2>1, <2>2, <2>3
    DEF Next, Ingest, Reingest, CreateJob, Enqueue, EnqueueFails, Redeliver, Receive,
        Acknowledge, Progress, BeginIngest, BeginReindex, Prepare, Retrieve,
        RetrieveNotFound, CheckCollection, CreateCollection, CreateConflict,
        CreatePayloadIndex, Flush, FlushConflict, Upsert, Reupsert, Fail, Succeed,
        CallFails, Lose, dbVars
<1>2. IInv /\ [Next]_vars =>
        [\A d \in Documents : chunks[d] # None => chunks'[d] = chunks[d]]_vars
  BY <1>1
<1> QED BY <1>2, Invariance, PTL DEF Spec, ChunksNeverReplaced
=============================================================================
