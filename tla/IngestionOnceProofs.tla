------------------------- MODULE IngestionOnceProofs -------------------------
(***************************************************************************)
(* Theorems about Ingestion when the broker delivers each message at most  *)
(* once (MaxDuplicates = 0: no visibility timeout expires on a message a   *)
(* live worker holds), whatever number of workers and messages is lost.    *)
(* Then a job is in one place at a time, which makes the pipeline refine   *)
(* IngestionContract.                                                      *)
(***************************************************************************)
EXTENDS IngestionProofs

\* A job is with its route, the broker or one worker, and nowhere else.
OnePlace ==
    /\ sending \cap (queue \cup unacked) = {}
    /\ queue \cap unacked = {}
    /\ \A w \in Workers : reserved[w] \subseteq unacked
    /\ \A v, w \in Workers : v # w => reserved[v] \cap reserved[w] = {}
    /\ \A w \in Workers : run[w] \notin sending \cup queue \cup unacked
    /\ \A v, w \in Workers : v # w /\ run[v] # None => run[v] # run[w]

\* So its state says how far it got.
OwnsState ==
    /\ \A j \in sending \cup queue \cup unacked : jobState[j] = "queued"
    /\ \A w \in Workers : pc[w] = "begin" => jobState[run[w]] = "queued"
    /\ \A w \in Workers : pc[w] \notin {"idle", "begin"} => jobState[run[w]] = "running"

Uploads(d) == {j \in JobsOf(d) : task[j].kind = "ingest"}

\* A document is created with its upload, and is never uploaded again.
OneUpload ==
    /\ \A d \in Documents : docStatus[d] = "absent" => JobsOf(d) = {} /\ PointsOf(d) = {}
    /\ \A d \in Documents : \A i, j \in Uploads(d) : i = j

\* Points that no committed row names are about to be committed, or their upload
\* has failed, is about to, or was lost.
StraysFail ==
    \A d \in Documents : \A b \in PointsOf(d) :
        \/ b = chunks[d]
        \/ \E w \in Workers : rows[w] = b /\ pc[w] = "commit" /\ Doc(w) = d
        \/ \A j \in Uploads(d) :
            /\ jobState[j] \in {"running", "failed"}
            /\ \A w \in Workers : run[w] = j => pc[w] = "fail"

OnceInv ==
    /\ OnePlace
    /\ OwnsState
    /\ OneUpload
    /\ StraysFail
    /\ BareCollectionHasACause

-----------------------------------------------------------------------------
\* What the steps between a worker's first and last status transaction have in
\* common, the upsert and the commit of an upload aside.
Work(w) ==
    /\ pc[w] \notin {"idle", "begin", "fail"}
    /\ pc'[w] \notin {"idle", "begin"}
    /\ pc[w] = "commit" => pc'[w] = "fail"
    /\ pc[w] = "payload_index" => collection' # "bare" \/ pc'[w] = "fail"
    /\ collection' = "bare" => collection = "bare" \/ pc'[w] \in {"payload_index", "fail"}
    /\ \A v \in Workers \ {w} : pc'[v] = pc[v] /\ rows'[v] = rows[v]
    /\ UNCHANGED <<dbVars, points, brokerVars, run>>

\* The first status transaction of either body.
Begin(w) == BeginIngest(w) \/ BeginReindex(w)

\* A route adds a job: its id is new, so nothing holds it.
LEMMA CreateJobOnce ==
    ASSUME IInv, OnceInv, NEW d \in Documents, NEW j \in Jobs, NEW kind \in {"ingest", "reindex"},
           kind = "ingest" <=> docStatus[d] = "absent", CreateJob(d, j, kind)
    PROVE  OnceInv'
<1>1. OnePlace'
  BY IngestionAssumption DEF IInv, AtItsStep, OnceInv, OnePlace, OwnsState, CreateJob,
      workerVars
<1>2. OwnsState'
  BY DEF IInv, TypeOK, OnceInv, OwnsState, CreateJob, workerVars
<1>3. OneUpload'
  BY DEF IInv, TypeOK, JobsOf, OnceInv, OneUpload, PointsOf, Uploads, CreateJob,
      qdrantVars
<1>4. StraysFail'
  BY DEF Doc, JobsOf, OnceInv, OwnsState, OneUpload, PointsOf, Uploads, StraysFail,
      CreateJob, qdrantVars, workerVars
<1>5. BareCollectionHasACause'
  BY DEF OnceInv, BareCollectionHasACause, Stranded, InFlight, CreateJob, qdrantVars,
      workerVars
<1> QED BY <1>1, <1>2, <1>3, <1>4, <1>5 DEF OnceInv

\* delay() moves a job from its route to the broker.
LEMMA EnqueueOnce ==
    ASSUME IInv, OnceInv, NEW j \in Jobs, Enqueue(j)
    PROVE  OnceInv'
<1>1. OnePlace'
  BY DEF OnceInv, OnePlace, Enqueue, workerVars
<1>2. OwnsState'
  BY DEF OnceInv, OwnsState, Enqueue, dbVars, workerVars
<1>3. BareCollectionHasACause'
  BY DEF OnceInv, BareCollectionHasACause, Stranded, InFlight, Enqueue, dbVars,
      qdrantVars, workerVars
<1>4. OneUpload' /\ StraysFail'
  BY DEF OnceInv, Enqueue, dbVars, qdrantVars, workerVars, OneUpload, JobsOf, PointsOf,
      Uploads, StraysFail, Doc
<1> QED BY <1>1, <1>2, <1>3, <1>4 DEF OnceInv

\* A message that is never sent leaves its job stranded.
LEMMA EnqueueFailsOnce ==
    ASSUME IInv, OnceInv, NEW j \in Jobs, EnqueueFails(j)
    PROVE  OnceInv'
<1>1. OnePlace'
  BY DEF OnceInv, OnePlace, EnqueueFails, workerVars
<1>2. OwnsState'
  BY DEF OnceInv, OwnsState, EnqueueFails, dbVars, workerVars
<1>3. BareCollectionHasACause'
  BY DEF OnceInv, BareCollectionHasACause, Stranded, InFlight, EnqueueFails, dbVars,
      qdrantVars, workerVars
<1>4. OneUpload' /\ StraysFail'
  BY DEF OnceInv, EnqueueFails, dbVars, qdrantVars, workerVars, OneUpload, JobsOf,
      PointsOf, Uploads, StraysFail, Doc
<1> QED BY <1>1, <1>2, <1>3, <1>4 DEF OnceInv

\* With no duplicates to give, only a message nobody holds is put back.
LEMMA RedeliverOnce ==
    ASSUME IInv, OnceInv, MaxDuplicates = 0, NEW j \in Jobs, Redeliver(j)
    PROVE  OnceInv'
<1>1. OnePlace'
  BY DEF IInv, TypeOK, OnceInv, OnePlace, Redeliver, Held, workerVars
<1>2. OwnsState'
  BY DEF OnceInv, OwnsState, Redeliver, dbVars, workerVars
<1>3. BareCollectionHasACause'
  BY DEF OnceInv, BareCollectionHasACause, Stranded, InFlight, Redeliver, dbVars,
      qdrantVars, workerVars
<1>4. OneUpload' /\ StraysFail'
  BY DEF OnceInv, Redeliver, dbVars, qdrantVars, workerVars, OneUpload, JobsOf,
      PointsOf, Uploads, StraysFail, Doc
<1> QED BY <1>1, <1>2, <1>3, <1>4 DEF OnceInv

\* A worker prefetches a message that no other worker holds.
LEMMA ReceiveOnce ==
    ASSUME IInv, OnceInv, NEW w \in Workers, NEW j \in Jobs, Receive(w, j)
    PROVE  OnceInv'
<1>1. OnePlace'
  BY DEF OnceInv, OnePlace, Receive, workerVars
<1>2. OwnsState'
  BY DEF OnceInv, OwnsState, Receive, dbVars, workerVars
<1>3. BareCollectionHasACause'
  BY IngestionAssumption DEF OnceInv, BareCollectionHasACause, Stranded, InFlight,
      Receive, dbVars, qdrantVars, workerVars
<1>4. OneUpload' /\ StraysFail'
  BY DEF OnceInv, Receive, dbVars, qdrantVars, workerVars, OneUpload, JobsOf, PointsOf,
      Uploads, StraysFail, Doc
<1> QED BY <1>1, <1>2, <1>3, <1>4 DEF OnceInv

\* The worker that starts a job is the only one that ever held it.
LEMMA AcknowledgeOnce ==
    ASSUME IInv, OnceInv, NEW w \in Workers, NEW j \in Jobs, Acknowledge(w, j)
    PROVE  OnceInv'
<1>1. OnePlace'
  BY DEF IInv, TypeOK, OnceInv, OnePlace, Acknowledge
<1>2. OwnsState'
  BY DEF IInv, TypeOK, OnceInv, OnePlace, OwnsState, Acknowledge, dbVars
<1>3. StraysFail'
  BY DEF Doc, JobsOf, OnceInv, OnePlace, OwnsState, PointsOf, Uploads, StraysFail,
      Acknowledge, dbVars, qdrantVars
<1>4. BareCollectionHasACause'
  BY DEF OnceInv, BareCollectionHasACause, Stranded, InFlight, Acknowledge, dbVars,
      qdrantVars
<1>5. OneUpload'
  BY DEF OnceInv, Acknowledge, dbVars, qdrantVars, OneUpload, JobsOf, PointsOf, Uploads
<1> QED BY <1>1, <1>2, <1>3, <1>4, <1>5 DEF OnceInv

\* The job that begins was queued, and nobody else runs it.
LEMMA BeginOnce ==
    ASSUME IInv, OnceInv, NEW w \in Workers, Begin(w)
    PROVE  OnceInv'
<1>1. OwnsState'
  BY DEF IInv, TypeOK, AtItsStep, OnceInv, OnePlace, OwnsState, Begin, BeginIngest,
      SetStatus, Goto, brokerVars, BeginReindex
<1>2. OneUpload'
  BY DEF IInv, TypeOK, JobsOf, OnceInv, OneUpload, PointsOf, Uploads, Begin,
      BeginIngest, SetStatus, qdrantVars, BeginReindex
<1>3. StraysFail'
  BY IngestionAssumption DEF IInv, TypeOK, IngestionState, Task, Steps, AtItsStep,
      IngestOnly, Kind, ReindexOnly, Doc, ChunksAreIndexed, StatusMirrorsAJob, JobsOf,
      Mirrors, OnceInv, OnePlace, OwnsState, OneUpload, PointsOf, Uploads, StraysFail,
      Begin, BeginIngest, SetStatus, Goto, qdrantVars, BeginReindex
<1>4. BareCollectionHasACause'
  BY DEF IInv, TypeOK, OnceInv, OwnsState, BareCollectionHasACause, Stranded, InFlight,
      Begin, BeginIngest, SetStatus, Goto, qdrantVars, brokerVars, BeginReindex
<1>5. OnePlace'
  BY DEF OnceInv, Begin, BeginIngest, brokerVars, BeginReindex, OnePlace
<1> QED BY <1>1, <1>2, <1>3, <1>4, <1>5 DEF OnceInv

\* Between two transactions no state is written, and a failure ends in the except branch.
LEMMA WorkOnce ==
    ASSUME IInv, OnceInv, NEW w \in Workers, Work(w)
    PROVE  OnceInv'
<1>1. OwnsState'
  BY DEF OnceInv, OwnsState, Work, dbVars, brokerVars
<1>2. StraysFail'
  BY IngestionAssumption DEF IInv, TypeOK, DocumentStatus, IngestionState, Tasked,
      AtItsStep, IngestOnly, Kind, ReindexOnly, Doc, ChunksAreIndexed, JobsOf, OnceInv,
      OnePlace, OwnsState, OneUpload, PointsOf, Uploads, StraysFail, Work, dbVars
<1>3. BareCollectionHasACause'
  BY DEF OnceInv, BareCollectionHasACause, Stranded, InFlight, Work, dbVars, brokerVars
<1>4. OnePlace' /\ OneUpload'
  BY DEF OnceInv, Work, dbVars, brokerVars, OnePlace, OneUpload, JobsOf, PointsOf,
      Uploads
<1> QED BY <1>1, <1>2, <1>3, <1>4 DEF OnceInv

\* The points of an upload are about to be committed, or their upload to fail.
LEMMA UpsertOnce ==
    ASSUME IInv, OnceInv, NEW w \in Workers, Upsert(w)
    PROVE  OnceInv'
<1>1. OwnsState'
  BY DEF IInv, TypeOK, Doc, Uncommitted, OnceInv, OwnsState, Upsert, Goto, dbVars,
      brokerVars
<1>2. OneUpload'
  BY DEF IInv, TypeOK, Tasked, AtItsStep, Doc, JobsOf, OnceInv, OneUpload, PointsOf,
      Uploads, Upsert, dbVars
<1>3. StraysFail'
  BY DEF IInv, TypeOK, DocumentStatus, Tasked, AtItsStep, IngestOnly, Kind, Doc, JobsOf,
      OnceInv, OnePlace, OwnsState, OneUpload, PointsOf, Uploads, StraysFail, Upsert,
      Goto, dbVars, brokerVars
<1>4. BareCollectionHasACause'
  BY DEF IInv, TypeOK, OnceInv, BareCollectionHasACause, Stranded, InFlight, Upsert,
      Goto, dbVars, brokerVars
<1>5. OnePlace'
  BY DEF OnceInv, Upsert, brokerVars, OnePlace
<1> QED BY <1>1, <1>2, <1>3, <1>4, <1>5 DEF OnceInv

\* The commit names the points of its upload.
LEMMA CommitOnce ==
    ASSUME IInv, OnceInv, NEW w \in Workers, Commit(w)
    PROVE  OnceInv'
<1>1. OwnsState'
  BY DEF OnceInv, OwnsState, Commit, Goto, brokerVars
<1>2. StraysFail'
  BY IngestionAssumption DEF IInv, TypeOK, AtItsStep, IngestOnly, Kind, Doc,
      Uncommitted, ChunksAreIndexed, StatusMirrorsAJob, JobsOf, Mirrors, OnceInv,
      PointsOf, Uploads, StraysFail, Commit, Goto, qdrantVars
<1>3. BareCollectionHasACause'
  BY DEF OnceInv, BareCollectionHasACause, Stranded, InFlight, Commit, Goto, qdrantVars,
      brokerVars
<1>4. OnePlace' /\ OneUpload'
  BY DEF OnceInv, Commit, qdrantVars, brokerVars, OnePlace, OneUpload, JobsOf, PointsOf,
      Uploads
<1> QED BY <1>1, <1>2, <1>3, <1>4 DEF OnceInv

\* A job fails once, and leaves the strays of its upload explained.
LEMMA FailOnce ==
    ASSUME IInv, OnceInv, NEW w \in Workers, Fail(w)
    PROVE  OnceInv'
<1>1. OnePlace'
  BY IngestionAssumption DEF IInv, TypeOK, OnceInv, OnePlace, Fail, Finish, brokerVars
<1>2. OwnsState'
  BY DEF IInv, TypeOK, AtItsStep, OnceInv, OnePlace, OwnsState, Fail, SetStatus, Finish,
      Goto, brokerVars
<1>3. OneUpload'
  BY DEF JobsOf, OnceInv, OneUpload, PointsOf, Uploads, Fail, SetStatus, qdrantVars
<1>4. StraysFail'
  BY IngestionAssumption DEF IInv, TypeOK, DocumentStatus, IngestionState, Task,
      AtItsStep, Kind, ReindexOnly, Doc, Uncommitted, Indexed, ChunksAreIndexed,
      StatusMirrorsAJob, JobsOf, Mirrors, OnceInv, OnePlace, OwnsState, OneUpload,
      PointsOf, Uploads, StraysFail, BareCollectionHasACause, Stranded, Fail, SetStatus,
      Finish, Goto, qdrantVars, brokerVars, bounds
<1>5. BareCollectionHasACause'
  BY DEF IInv, TypeOK, AtItsStep, BareCollectionHasACause, Fail, SetStatus
<1> QED BY <1>1, <1>2, <1>3, <1>4, <1>5 DEF OnceInv

\* A job that succeeds left no stray: one would have made it fail.
LEMMA SucceedOnce ==
    ASSUME IInv, OnceInv, NEW w \in Workers, Succeed(w)
    PROVE  OnceInv'
<1>1. OnePlace'
  BY IngestionAssumption DEF IInv, TypeOK, OnceInv, OnePlace, Succeed, Finish,
      brokerVars
<1>2. OwnsState'
  BY DEF IInv, TypeOK, AtItsStep, OnceInv, OnePlace, OwnsState, Succeed, SetStatus,
      Finish, Goto, brokerVars
<1>3. OneUpload'
  BY DEF JobsOf, OnceInv, OneUpload, PointsOf, Uploads, Succeed, SetStatus, qdrantVars
<1>4. StraysFail'
  BY IngestionAssumption DEF Doc, JobsOf, OnceInv, PointsOf, Uploads, StraysFail,
      Succeed, SetStatus, Finish, Goto, qdrantVars
<1>5. BareCollectionHasACause'
  BY IngestionAssumption DEF OnceInv, OwnsState, BareCollectionHasACause, Stranded,
      InFlight, Succeed, SetStatus, Finish, Goto, qdrantVars, brokerVars
<1> QED BY <1>1, <1>2, <1>3, <1>4, <1>5 DEF OnceInv

\* A lost job stays as it was, with nobody to run it.
LEMMA LoseOnce ==
    ASSUME IInv, OnceInv, NEW w \in Workers, Lose(w)
    PROVE  OnceInv'
<1>1. OnePlace'
  <2>1. \A v \in Workers : reserved'[v] \subseteq reserved[v] /\ run'[v] \in {run[v], None}
    BY DEF IInv, TypeOK, Lose, Finish
  <2> QED
    BY <2>1, IngestionAssumption DEF IInv, TypeOK, OnceInv, OnePlace, Lose
<1>2. OwnsState'
  BY DEF IInv, TypeOK, OnceInv, OwnsState, Lose, Finish, Goto, dbVars
<1>3. StraysFail'
  BY IngestionAssumption DEF IInv, TypeOK, Tasked, AtItsStep, IngestOnly, Kind,
      ReindexOnly, Doc, JobsOf, OnceInv, OnePlace, OwnsState, OneUpload, PointsOf,
      Uploads, StraysFail, Lose, Finish, Goto, dbVars, qdrantVars
<1>4. BareCollectionHasACause'
  BY DEF IInv, TypeOK, DocumentStatus, IngestionState, Steps, AtItsStep, IngestOnly,
      OnceInv, OnePlace, OwnsState, BareCollectionHasACause, Stranded, InFlight, Lose,
      Finish, Goto, dbVars, qdrantVars
<1>5. OneUpload'
  BY DEF OnceInv, Lose, dbVars, qdrantVars, OneUpload, JobsOf, PointsOf, Uploads
<1> QED BY <1>1, <1>2, <1>3, <1>4, <1>5 DEF OnceInv

-----------------------------------------------------------------------------
\* The initial states satisfy the once-delivered invariant.
LEMMA InitOnce == Init => OnceInv
  BY IngestionAssumption
  DEF Init, OnceInv, OnePlace, OwnsState, OneUpload, StraysFail, BareCollectionHasACause,
      Uploads, JobsOf, PointsOf

\* What a worker does between its status transactions is Work, Upsert or Commit.
LEMMA WorkSteps ==
    ASSUME IInv, NEW w \in Workers,
           \/ Prepare(w) \/ Retrieve(w) \/ RetrieveNotFound(w) \/ CheckCollection(w)
           \/ CreateCollection(w) \/ CreateConflict(w) \/ CreatePayloadIndex(w)
           \/ Flush(w) \/ FlushConflict(w) \/ Reupsert(w) \/ CallFails(w)
    PROVE  Work(w)
<1> USE DEF IInv, TypeOK, Work, Goto, AfterEnsure, dbVars, qdrantVars, brokerVars
<1>1. CASE Prepare(w)
  BY <1>1 DEF Prepare
<1>2. CASE Retrieve(w) \/ RetrieveNotFound(w)
  BY <1>2 DEF Retrieve, RetrieveNotFound
<1>3. CASE CheckCollection(w)
  BY <1>3 DEF CheckCollection
<1>4. CASE CreateCollection(w) \/ CreateConflict(w)
  BY <1>4 DEF CreateCollection, CreateConflict
<1>5. CASE CreatePayloadIndex(w)
  BY <1>5 DEF CreatePayloadIndex
<1>6. CASE Flush(w) \/ FlushConflict(w)
  BY <1>6 DEF Flush, FlushConflict
<1>7. CASE Reupsert(w)
  <2>1. points[ids[w]] = Doc(w)
    BY <1>7 DEF Reupsert, AtItsStep, ChunksAreIndexed, Tasked, Task, Doc
  <2> QED
    BY <1>7, <2>1 DEF Reupsert
<1>8. CASE CallFails(w)
  BY <1>8 DEF CallFails, Fallible
<1> QED
  BY <1>1, <1>2, <1>3, <1>4, <1>5, <1>6, <1>7, <1>8

\* Every step preserves the invariant.
LEMMA NextOnce ==
    ASSUME MaxDuplicates = 0, IInv, OnceInv, [Next]_vars
    PROVE  OnceInv'
<1>1. ASSUME NEW d \in Documents, NEW j \in Jobs, Ingest(d, j) \/ Reingest(d, j)
      PROVE  OnceInv'
  BY <1>1, CreateJobOnce DEF Ingest, Reingest
<1>2. ASSUME NEW j \in Jobs, Enqueue(j) \/ EnqueueFails(j) \/ Redeliver(j)
      PROVE  OnceInv'
  BY <1>2, EnqueueOnce, EnqueueFailsOnce, RedeliverOnce
<1>3. ASSUME NEW w \in Workers, NEW j \in Jobs, Receive(w, j) \/ Acknowledge(w, j)
      PROVE  OnceInv'
  BY <1>3, ReceiveOnce, AcknowledgeOnce
<1>4. ASSUME NEW w \in Workers, Progress(w) \/ CallFails(w) \/ Lose(w)
      PROVE  OnceInv'
  BY ONLY <1>4, IInv, OnceInv, w \in Workers, WorkSteps, WorkOnce, BeginOnce, UpsertOnce,
     CommitOnce, FailOnce, SucceedOnce, LoseOnce
  DEF Progress, Begin
<1>5. CASE UNCHANGED vars
  BY <1>5
  DEF vars, dbVars, qdrantVars, brokerVars, workerVars, OnceInv, OnePlace, OwnsState, OneUpload,
      StraysFail, BareCollectionHasACause, Stranded, InFlight, Uploads, JobsOf, PointsOf, Doc
<1> QED BY <1>1, <1>2, <1>3, <1>4, <1>5 DEF Next

\* With each message delivered at most once, both invariants hold.
THEOREM OnceInvariance == ASSUME MaxDuplicates = 0 PROVE Spec => [](IInv /\ OnceInv)
<1>1. Init => IInv /\ OnceInv
  BY InitIInv, InitOnce
<1>2. (IInv /\ OnceInv) /\ [Next]_vars => (IInv /\ OnceInv)'
  BY NextIInv, NextOnce
<1> QED BY <1>1, <1>2, PTL DEF Spec

\* A SUCCEEDED upload left no points but those of its chunk rows.
THEOREM SucceededLeftNoStrays ==
    ASSUME MaxDuplicates = 0 PROVE Spec => []SucceededIngestLeftNoStrays
<1>1. ASSUME IInv, OnceInv
      PROVE  SucceededIngestLeftNoStrays
  <2> SUFFICES ASSUME NEW j \in Jobs, jobState[j] = "succeeded", task[j].kind = "ingest"
               PROVE  PointsOf(task[j].doc) = {chunks[task[j].doc]}
    BY DEF SucceededIngestLeftNoStrays
  <2> DEFINE d == task[j].doc
  <2>1. task[j] \in Task /\ d \in Documents /\ j \in Uploads(d)
    BY <1>1 DEF IInv, TypeOK, Tasked, Task, Uploads, JobsOf
  <2>2. chunks[d] \in PointsOf(d)
    BY <1>1, <2>1 DEF IInv, TypeOK, Indexed, ChunksAreIndexed, PointsOf
  <2>3. ~ \E w \in Workers : pc[w] = "commit" /\ Doc(w) = d
    BY <1>1, <2>1 DEF IInv, Uncommitted, Indexed, AtItsStep, IngestOnly
  <2>4. \A b \in PointsOf(d) : b = chunks[d]
    BY <1>1, <2>1, <2>3 DEF OnceInv, StraysFail
  <2> QED BY <2>2, <2>4
<1>2. IInv /\ OnceInv => SucceededIngestLeftNoStrays
  BY <1>1
<1> QED BY <1>2, OnceInvariance, PTL

\* A collection without its tenant_id index has a worker, a failure or a loss to blame.
THEOREM BareCollectionExplained ==
    ASSUME MaxDuplicates = 0 PROVE Spec => []BareCollectionHasACause
<1>1. OnceInv => BareCollectionHasACause
  BY DEF OnceInv
<1> QED BY <1>1, OnceInvariance, PTL

-----------------------------------------------------------------------------
(* Refinement.                                                             *)

LEMMA CreateJobRefines ==
    ASSUME NEW d \in Documents, NEW j \in Jobs, Ingest(d, j) \/ Reingest(d, j)
    PROVE  Contract!Next
<1>1. PICK kind \in {"ingest", "reindex"} :
        (kind = "ingest" <=> docStatus[d] = "absent") /\ CreateJob(d, j, kind)
  BY DEF Ingest, Reingest
<1>2. Contract!Request(d, j, kind)
  BY <1>1 DEF CreateJob, Contract!Request, Contract!SetStatus, Searchable, qdrantVars
<1> QED BY <1>2 DEF Contract!Next

\* The commit is the step that indexes the document.
LEMMA CommitRefines ==
    ASSUME IInv, OnceInv, NEW w \in Workers, Commit(w)
    PROVE  Contract!Index(run[w])
<1>1. Searchable' = Searchable \cup {Doc(w)}
  BY IngestionAssumption
  DEF Commit, Searchable, IInv, TypeOK, Tasked, Task, AtItsStep, IngestOnly, Uncommitted,
      qdrantVars, Doc
<1> QED
  BY <1>1
  DEF Commit, Contract!Index, OnceInv, OwnsState, IInv, AtItsStep, IngestOnly, TypeOK, Doc, Kind

\* The status transactions of the workers are the Begin, Succeed and Fail steps.
LEMMA StatusRefines ==
    ASSUME IInv, OnceInv, NEW w \in Workers, Begin(w) \/ Fail(w) \/ Succeed(w)
    PROVE  Contract!Begin(run[w]) \/ Contract!Fail(run[w]) \/ Contract!Succeed(run[w])
<1> USE DEF SetStatus, Contract!SetStatus, Searchable, qdrantVars, OnceInv, OwnsState, Doc
<1>1. CASE Begin(w)
  BY <1>1 DEF Begin, BeginIngest, BeginReindex, Contract!Begin
<1>2. CASE Fail(w)
  BY <1>2 DEF Fail, Contract!Fail
<1>3. CASE Succeed(w)
  <2>1. Kind(w) = "ingest" => Doc(w) \in Searchable
    BY <1>3 DEF IInv, TypeOK, Tasked, Task, AtItsStep, Indexed, ChunksAreIndexed, Succeed, Kind
  <2> QED
    BY <1>3, <2>1 DEF Succeed, Contract!Succeed, Kind
<1> QED BY <1>1, <1>2, <1>3

\* An upsert of a fresh batch, not committed yet, makes nothing searchable.
LEMMA UpsertStutters ==
    ASSUME IInv, NEW w \in Workers, Upsert(w)
    PROVE  UNCHANGED Contract!vars
<1>1. Searchable' = Searchable
  BY DEF IInv, Uncommitted, AtItsStep, TypeOK, Tasked, Task, Upsert, Searchable, dbVars, Doc
<1> QED BY <1>1 DEF Upsert, Contract!vars, dbVars

\* What the broker and the losses do is invisible to the contract.
LEMMA BrokerStutters ==
    ASSUME UNCHANGED <<dbVars, points>>
    PROVE  UNCHANGED Contract!vars
  BY DEF dbVars, Searchable, Contract!vars

\* Every step of the pipeline is a step of the contract, or none.
LEMMA StepRefines ==
    ASSUME IInv, OnceInv, [Next]_vars
    PROVE  [Contract!Next]_(Contract!vars)
<1>1. ASSUME NEW d \in Documents, NEW j \in Jobs, Ingest(d, j) \/ Reingest(d, j)
      PROVE  Contract!Next
  BY <1>1, CreateJobRefines
<1>2. ASSUME NEW j \in Jobs, Enqueue(j) \/ EnqueueFails(j) \/ Redeliver(j)
      PROVE  UNCHANGED Contract!vars
  BY <1>2, BrokerStutters DEF Enqueue, EnqueueFails, Redeliver, qdrantVars
<1>3. ASSUME NEW w \in Workers, NEW j \in Jobs, Receive(w, j) \/ Acknowledge(w, j)
      PROVE  UNCHANGED Contract!vars
  BY <1>3, BrokerStutters DEF Receive, Acknowledge, qdrantVars
<1>4. ASSUME NEW w \in Workers, Begin(w) \/ Fail(w) \/ Succeed(w) \/ Commit(w)
      PROVE  Contract!Next
  <2>1. run[w] \in Jobs
    BY <1>4 DEF IInv, TypeOK, AtItsStep, Begin, BeginIngest, BeginReindex, Fail, Succeed, Commit
  <2> QED
    BY ONLY <1>4, <2>1, IInv, OnceInv, w \in Workers, StatusRefines, CommitRefines DEF Contract!Next
<1>5. ASSUME NEW w \in Workers, Lose(w) \/ Work(w) \/ UNCHANGED vars
      PROVE  UNCHANGED Contract!vars
  BY <1>5, BrokerStutters DEF Lose, Work, qdrantVars, vars
<1>6. ASSUME NEW w \in Workers, Upsert(w)
      PROVE  UNCHANGED Contract!vars
  BY <1>6, UpsertStutters
<1>7. ASSUME NEW w \in Workers, Progress(w) \/ CallFails(w) \/ Lose(w)
      PROVE  \/ Begin(w) \/ Fail(w) \/ Succeed(w) \/ Commit(w)
             \/ Lose(w) \/ Work(w) \/ Upsert(w)
  BY ONLY <1>7, IInv, w \in Workers, WorkSteps DEF Progress, Begin
<1>8. CASE UNCHANGED vars
  BY <1>8, BrokerStutters DEF vars, qdrantVars
<1> QED
  BY <1>1, <1>2, <1>3, <1>4, <1>5, <1>6, <1>7, <1>8 DEF Next

\* The pipeline, over two stores and a queue, implements the contract of one atomic
\* indexing step per job.
THEOREM PipelineImplementsContract ==
    ASSUME MaxDuplicates = 0 PROVE Spec => ImplementsContract
<1>1. Init => Contract!Init
  BY IngestionAssumption DEF Init, Contract!Init, Searchable
<1>2. IInv /\ OnceInv /\ [Next]_vars => [Contract!Next]_(Contract!vars)
  BY StepRefines
<1> QED
  BY <1>1, <1>2, OnceInvariance, PTL DEF Spec, ImplementsContract, Contract!Spec

\* A job a client has seen end never changes again.
THEOREM TerminalForGood == ASSUME MaxDuplicates = 0 PROVE Spec => TerminalIsFinal
<1>1. ASSUME [Contract!Next]_(Contract!vars), IInv, NEW j \in Jobs, Terminal(j)
      PROVE  jobState'[j] = jobState[j]
  BY <1>1
  DEF Contract!Next, Contract!vars, Contract!Request, Contract!Begin, Contract!Index,
      Contract!Succeed, Contract!Fail, Contract!SetStatus, Terminal, IInv, TypeOK
<1>2. IInv /\ OnceInv /\ [Next]_vars =>
        [\A j \in Jobs : Terminal(j) => jobState'[j] = jobState[j]]_vars
  BY <1>1, StepRefines
<1> QED BY <1>2, OnceInvariance, PTL DEF Spec, TerminalIsFinal
=============================================================================
