# Sourcebound in TLA+

Sourcebound answers questions over a workspace's documents: files are uploaded,
chunked, embedded and indexed in the background, and a corrective-RAG graph
retrieves chunks, grades them, rewrites the question, falls back to the web and
answers with citations. This directory holds TLA+ models of the parts whose
behaviour depends on order, failure and concurrency, the TLC configurations that
check them on small instances, and theorems that TLAPS proves for every value of
the constants. Paths below are relative to the repository; `app/` stands for
`backend/app/`.

## 1. Inventory

| Part | State | Operations | What is hard | What makes it correct |
|---|---|---|---|---|
| Ingestion routes (`api/v1/routes/ingest.py`, `management.py`) | rows of `documents`, `ingestion_jobs` | upload, reingest, status | commit, then `delay()`: two systems, no transaction | a job that exists is run, or visibly was not |
| Queue (`workers/`) | Redis list, unacknowledged messages, prefetched messages | send, receive, acknowledge, redeliver | early acknowledgement, visibility timeout, lost workers | at-most-once in the normal case; duplicates do no harm to chunks |
| Worker bodies (`services/ingestion_service.py`) | job state, document status, chunk rows, points | `process_ingestion_job`, `reindex_document` | Postgres and Qdrant share no transaction; several jobs on one document | rows imply points; statuses tell the truth; failures are recorded |
| Vector store (`vectorstore/qdrant.py`) | collection, payload index, points | `ensure_collection`, upsert, `delete_points` | check-then-create by several workers | no half-built collection without a cause; no stray points |
| Corrective graph (`graphs/`) | `QueryState` | retrieve, grade, rewrite, web search, generate, verify | a loop; any LLM reply; any call may raise | it ends; citations come from the prompt; web is the last resort |
| Query service (`services/query_service.py`) | final state of the graph | `answer_question`, `stream_answer` | tokens before the final event | stream and answer agree |
| Query endpoints (`api/v1/routes/query.py`) | conversation and message rows, Redis cache | `POST /query`, `POST /query/stream` | one transaction against several, disconnects, stale cache | turns are persisted once, in order |
| Conversations and feedback (`services/conversation_service.py`) | messages, `answer_feedback` | history, add, rate | select-then-insert, time-stamp order | bounded history of one's own; an acknowledged rating stands |
| Demo and corpora (`services/demo_service.py`, `scripts/seed_demo.py`, `eval/run_eval.py`) | documents of shared tenants | provision, seed, clean up | concurrent visitors, crash half-way | a READY document is searchable; runs one after the other never double a file; a corpus lacks a file only where somebody stopped |
| Accounts (`services/auth_service.py`, `api/deps.py`) | users, tenants, API keys | signup, login, keys | select-then-insert on e-mail | who was told ok has the account; revoked keys fail |
| Middleware and errors (`core/middleware.py`, `errors.py`, `main.py`) | Redis counters of the rate limit | count, refuse, answer, decorate | two Redis calls, expiry, fail-open; order of the layers | at most the limit per window; refusals are deserved; errors reach the browser |
| Retrieval (`rag/retrievers.py`, `reranking.py`) | the cached reranker | fusion, rerank | ties, duplicates across lists, a cache built from settings | a chunk no search prefers is never put first |
| Evaluation (`eval/run_eval.py`, `metrics.py`) | process-wide settings, `eval_runs` | presets, runs, comparison, threshold | settings overwritten and restored, exceptions in between | a run is measured under the preset it names |
| Dashboard (`services/dashboard_service.py`) | none (reads) | counts, percentiles | small samples | |
| Web client (`frontend/`) | turns, conversation id, token | ask, new conversation, rate, log in | a stream that outlives its conversation | a turn shows in the thread it was asked in |
| Providers, prompts, parsing, schemas, configuration, logging, migrations, landing pages | none that changes | | pure I/O, formatting or layout | |

The parts interact as follows. A route commits rows and sends a Celery message;
a worker takes the message, writes Postgres and Qdrant, and records the outcome
in the rows the route created. The query endpoints run the graph in a thread; the
graph reads Qdrant (and the web) and calls an LLM; the endpoint persists the turns
and, when enabled, caches the answer in the same Redis instance that carries the
queue. Every request passes the middleware stack first, whose rate limit counts in
that Redis too, and then, on protected routes, the resolution of its principal. The
demo login, the seed script and the harness insert documents and call the worker's
`_index_document` in their own process; the harness also runs the graph. The web client polls the statuses and consumes the event stream. Section
"hazards" of `PROJECT.json` lists, line by line, what is hard to test in all this,
with the properties that cover it or the reason why none does.

## 2. Modules

| Module | Models |
|---|---|
| `Ingestion` | routes, broker, worker bodies, Postgres and Qdrant |
| `IngestionContract` | what a client may rely on: indexing as one atomic step, no queue, no stores |
| `MCIngestion` | instances for TLC |
| `IngestionProofs` | inductive invariant and theorems, any number of redeliveries and losses |
| `IngestionOnceProofs` | theorems that need at-most-once delivery, refinement of the contract |
| `CorrectiveRag` | one run of the graph and the shaping of its result |
| `AskContract` | what the endpoints promise of one question |
| `MCCorrectiveRag` | instances for TLC |
| `CorrectiveRagProofs` | inductive invariant, theorems, refinement of `AskContract` |
| `QueryApi` | both query endpoints, conversations, messages, the answer cache |
| `MCQueryApi` | instances for TLC |
| `QueryApiProofs` | inductive invariant and theorems, any users, questions and failures |
| `SeedCorpus` | demo login, seed script and harness filling a shared corpus |
| `MCSeedCorpus` | instances for TLC |
| `SeedCorpusProofs` | inductive invariant and theorems, any number of runs and files |
| `RequestPipeline` | middleware stack, rate limit, error responses |
| `MCRequestPipeline` | instances for TLC |
| `RequestPipelineProofs` | inductive invariant and theorems, any limit and any number of requests |
| `Accounts` | signup, login, principal, API keys, feedback |
| `MCAccounts` | instances for TLC |
| `AccountsProofs` | inductive invariant and theorems, any number of requests |
| `EvalRun` | the harness with its presets, retrieval and reranking |
| `MCEvalRun` | instances for TLC |
| `EvalRunProofs` | inductive invariant and theorems, any dataset and command line |

Operators whose comment begins with "Fault:" are not part of the model: each is a
faulty variant of the definition below it, and replacing that definition by it must
make TLC find a property violated (the list is `mutants` in `PROJECT.json`).

### 2.1 Ingestion

*State.* `docStatus`, `jobState`, `task` and `chunks` are the Postgres tables;
`points` and `collection` are Qdrant; `sending` holds jobs committed by a route that
has not called `delay()`; `queue`, `unacked` and `reserved` are the Redis list,
kombu's unacknowledged messages and the messages each worker has prefetched; `pc`,
`run`, `rows` and `ids` are the worker: its step, its job, the batch of chunk rows
it has flushed and not committed, and the ids a reindex works on.

*Actions.* One per committed transaction and per Qdrant call. `Ingest` and
`Reingest` are the two routes up to their commit, `Enqueue`/`EnqueueFails` the
`delay()` after it. `Receive`, `Redeliver`, `Acknowledge` are the broker.
`BeginIngest`, `Prepare`, `CheckCollection`, `CreateCollection`/`CreateConflict`,
`CreatePayloadIndex`, `Flush`/`FlushConflict`, `Upsert`, `Commit`, `Succeed` and
`Fail` follow `process_ingestion_job` and `_index_document` line by line;
`BeginReindex`, `Retrieve`/`RetrieveNotFound`, `Reupsert` are the steps
`reindex_document` has of its own. `CallFails` is a call that raises without effect;
`CreateCollection`, `CreatePayloadIndex`, `Upsert`, `Reupsert` and `Commit` may also
raise after they took effect. `Lose` is a worker process that dies, with or without
the messages it had prefetched.

*Decisions.* The unique index on `(document_id, position)` sees uncommitted rows:
`Flush` waits while another worker has flushed rows for the same document, and
`FlushConflict` is the error once rows are committed. The two steps of a transaction
that is open across a call (`Flush` ... `Commit`) are separate actions; the others
are single. Celery's defaults are what `celery_app.py` leaves in force: a message is
acknowledged when its task starts, so a dead worker loses the task it runs, while a
prefetched message comes back after the visibility timeout, possibly while its first
holder still has it (`duplicates`).

*Abstracted.* The chunks of one indexing run are one `Batch`: they are inserted by
one flush and upserted by one request. Parsing, chunking and embedding are one step
that may raise. The tenant is constant per document. The "job is None" returns are
left out: a message names rows committed before it was sent, and no code deletes the
rows of a document that has jobs (the seed script deletes documents of the demo
workspace, where uploads and reindexing are forbidden).

*Known limit.* A status transaction is one blind write. SQLAlchemy issues an UPDATE
only for columns whose value differs from the loaded one, so a status that another
transaction committed between the load and the commit can survive. What survives is
then the status that other job wrote together with its own state; the window itself
is not modelled.

### 2.2 CorrectiveRag

*State.* `node` is LangGraph's program counter; `question` ... `retries` are the
fields of `QueryState`; `webConfigured` and `maxRetries` are settings, any value
(`max_query_retries` up to the bound `MaxRetries`; the code has none), fixed;
`supersteps` counts nodes; `prompt` and `streamed` are history variables that remember
what `generate` saw and what the tokens it wrote add up to; `result` is what
`answer_question` returns or the last item `stream_answer` yields.

*Actions.* `Retrieve`, `GradeNothing`/`Grade`, `Rewrite`, `WebSearch`,
`GenerateNothing`/`Generate`, `Verify` are the nodes with the state update each
returns, `Decide` is the conditional edge, `Shape` builds the result, `Raise` is any
call that raises, `OutOfSteps` the GraphRecursionError of LangGraph. Retrieval and web
search return any set of at most the configured size, a grader any reply of the three
shapes its parser tells apart, the LLM nothing, blanks, the insufficiency sentence or
another text, the verifier any number or none.

*Decisions.* `generate_node` writes every raw token to the stream and strips the joined
text afterwards (`nodes.py:180-186`), so `generation` is `Strip(streamed)`: a reply of
blanks is streamed and its answer is empty. `StreamMatchesAnswer` says just this much;
in particular that an answer nobody streamed is the fixed sentence of an empty context.

*Abstracted.* Documents are sets: order and repeated numbers in a grader reply are
left out. The tenant filter is inside `Retrieve`: it returns chunks of the tenant.

### 2.3 QueryApi

*State.* `conversations` and `stamp` are the committed rows: a message is the user or
assistant turn of a request, `stamp` its `created_at`. `cache` is the Redis cache:
whose answer is stored for a user and a question. `turn` is the request body with the
conversation it was given; a conversation is named by the request that opened it.
`pc`, `began`, `history`, `answer` are a handler: its step, the start of its
transaction, what `load_recent_history` returned, and the request whose graph run its
answer comes from. `seen` is what its client received; `context` and `length` are
history variables (turns the client had seen answered when it asked; length of an
answer); `clock` counts transactions.

*Actions.* `Open`, `Continue` and `NotFound` are `get_or_create_conversation`; `Load`
is `load_recent_history` with the flush of the question. `Run` is the graph: it takes
time and yields an answer. POST /query ends with `Commit` and `Respond`. The stream
commits the question (`CommitQuestion`), looks into the cache (`Hit`/`Miss`) when it
may, and goes on with `Persist` (a transaction of its own), `Emit`, `Store`, `Finish`.
`CallFails` is a call that raises without effect, the second disjunct of `Committed`
a commit that took effect and raises; `Abandon` is a process that dies or a client
that leaves a stream; Redis errors are the failing disjuncts of `Miss` and `Store`.

*Decisions.* `created_at` is `func.now()`, the start of the transaction in Postgres;
rows that tie come back in any order, so `Latest` is a set of sequences. The client
learns conversation ids from answers, its own or another's (`Known`), and may send any
of them. `Trim` states what the loop computes: the longest suffix within the budget
(`Total` adds up its sizes with the recursive function of `SumOf`).

*Abstracted.* `CorrectiveRag` is one step that yields an answer or raises. A user has
a tenant of their own (scope checks compare both). Token events are left out: they say
nothing that the final event does not. The key of the cache is the normalised
question, so two questions that differ in case or outer blanks are one member of
`Questions`.

### 2.4 SeedCorpus

*State.* `demo` is the tenant of the user with the demo e-mail (a unique index keeps
it one), `evals` the tenants with the harness's name (no index does). `status` and
`rows` are documents and chunk rows, `collection` and `points` are Qdrant, a document
being named by the process that inserts it and its file. `kind`, `pc`, `home`, `fixture`, `doomed` are a
process: which of the three programs it runs, its step, its tenant, the file it is at
and the documents it selected for deletion. `overlap` is a history variable: pairs of
processes that were at work at the same time.

*Actions.* `FindAccount`, `Provision` and `ProvisionConflict` find or make user and
tenant; `Enter` is the test of `demo_login`, `SelectIncomplete` and `Drop` are the
clean-up of the script; `Look`, `Insert`, `Index`, `MarkReady` are the loop body that
`seed_demo_corpus_sync` and `ensure_corpus` share, with `CheckCollection` and
`CreateCollection`/`CreateConflict` for the `ensure_collection` at the start of
`_index_document`; `DocumentGone` is its failure on a document somebody deleted,
`Interrupt` a call that raises or a process that dies. `WorkerCreates` is an upload
worker that creates the collection.

*Decisions.* Lookups and inserts are separate, at READ COMMITTED, even inside one
transaction. `_index_document` is the check of the collection, its creation, and one
step for the rest, whose insides `Ingestion` has; its upsert without its commit is a
case of `Interrupt`. A process ends as `done`, `failed` (a database error, or a document
that is gone), `conflict` (the collection was created between its check and its
creation) or `interrupted`. Two seeders on a fresh Qdrant can meet in that conflict with
nothing else going wrong: the document of the loser stays PENDING, the winner skips the
file because it has a document, and the corpus is short of it until a script cleans up.
So `CompleteAtRest` does not promise a complete corpus but says who is to blame for a
gap: a process that was interrupted or lost that race at this file or before
(`StoppedBefore`); one that `failed` never is. Deletion takes rows and leaves points, so
`points` may hold documents that are gone.

*Noted.* `scripts/seed_demo.py:9` says READY documents are skipped; a document in any
status is (the clean-up before makes them the same for a script that runs alone).

### 2.5 RequestPipeline

*State.* `counter` and `expires` are the Redis keys of the rate limit, `minute` the
clock. `caller`, `window`, `at`, `count`, `stage`, `response` are a request: whom and
for which minute it is counted, when INCR ran and what it returned, where it is and
who answered it with what; `raised` are the requests one of whose Redis calls raised.
`optional` is the set of layers the settings switch on; a
layer that is off is an empty piece of the stack (`Layer`).

*Actions.* `Receive` is all that is answered outside the rate limit or not counted;
`Identify`, `Incr`, `Expire`, `FailOpen` are `RateLimitMiddleware.dispatch` call by
call; `Handle` is the route with the handlers of `register_exception_handlers`;
`Tick` and `Evict` are time. `Stack` and `Headers` say which layers a response passes
and what they add.

*Decisions.* EXPIRE 60 in one minute lets a key go in the next, at any moment. A Redis
call that raises may have taken effect. A request is let through when it stands at the
routes or has an answer from there (`Passed`), whatever its number; `Admitted` are those
the limit is promised of: let through, no Redis call raised, INCR in the minute they are
counted for. The model follows `middleware.py:85`, a fixed window; `config.py:185` calls
the limiter a token bucket. An exception with no handler is answered by
Starlette outside of all layers, so the last-resort 500 carries neither CORS headers
nor the request id that `middleware.py:4-6` promises for every response;
`ErrorsAreReadable` leaves it out, as the comment in `create_app` does.

### 2.6 Accounts

*State.* `account`, `owner`, `revoked`, `feedback` are the tables `users`, `api_keys`
and `answer_feedback`; `op`, `stage`, `who`, `loaded`, `response` are a request;
`before` is a history variable: the requests that had ended when it began.

*Actions.* `Begin` picks any request the tables allow. `SignupLookup`/`SignupCommit`
and `Login` are the open routes; `ByToken`, `ByKey` and `Touch` resolve the principal
of the others, of which `Get`, `CreateKey`, `RevokeKey`, `LoadFeedback` and
`SaveFeedback` are the operations.

*Decisions.* A session that commits a loaded row writes the columns it changed
(`Merged`, `Touch`): that is why a key stays revoked, and why two ratings that overlap
can leave the thumb of one and the comment of the other. A unique index that is
violated raises an IntegrityError nobody catches, and the client gets an unexpected
error although `routes/feedback.py:2` calls rating idempotent; `ErrorsNeedARace` says
that this takes two requests at once. `conversation_service.py:137` says the message
must be an assistant answer; its role is not looked at, and neither is it here.

### 2.7 EvalRun

*State.* `settings` is what presets overwrite, `start` its value at the beginning,
`reranker` the cache of `get_reranker`; `todo` is the list of runs, `hits`,
`candidates`, `documents`, `rewrites` the question at hand, `run` the totals of this
run, `eval_runs` the table, `exit` the exit code.

*Actions.* `Main` reads the command line; `Enter` and `Leave` are the two halves of
`use_preset`; `Retrieve`, `Rerank`, `Rewrite`, `Score` a question; `Persist` the row;
`Raise` any call that raises; `Exit` the comparison table or the threshold.

*Decisions.* The retriever is built on every call, the reranker once: `use_preset`
clears its cache on both ends, either of which would do. The weights of the fusion are
naturals, zero included: numbers over a common denominator. The configuration does not
validate them; a negative one is outside `EvalAssumption` and would put what its search
ranks last first. Scores are integers over a common denominator (`Unit`, the product of
every divisor a rank can give), so that equal sums are ties. The sort is stated by its
result: the place of a chunk is the number of chunks before it, by score and, for a tie,
by when the loop met it. `--compare` ignores `--min-faithfulness`
(`run_eval.py:279-281` against `289-304`); the property says what the code does.

*Abstracted.* The graph is its retrieval and its loop; `CorrectiveRag` has its nodes.
Retrieval metrics are left out; their docstring speaks of chunks, the code of distinct
sources.

## 3. Runs

| Run | Instance | Shows |
|---|---|---|
| `IngestionOnce` | 2 documents, 3 jobs, 2 workers, 3 batches, prefetch 1, no duplicate, 1 loss; symmetry | safety of the pipeline with at-most-once delivery, and that it implements `IngestionContract` |
| `IngestionSettles` | 1 document, 2 jobs, 2 workers, 1 duplicate, 1 loss, fair | every job is let go of; without losses every job ends; two runs of one upload never replace its chunks, and one that SUCCEEDED left them in both stores |
| `IngestionReadyQueryable` | violation | `models.py` calls READY "chunked + indexed, queryable"; reindexing a document whose upload failed makes it READY with no chunk |
| `IngestionOrphans` | violation | `delete_points` is documented as the clean-up after a failed commit and is never called |
| `CorrectiveRag` | 3 chunks, 2 pages, top 2, retry caps 0 to 3, recursion limit 11, web on and off, fair | every path of the graph: citations, streaming, degradation order, bound and recursion limit, termination, `AskContract` |
| `CorrectiveRagFailOpen` | violation | the grader is documented to keep all documents on a parse failure; an array without numbers drops to "nothing relevant" |
| `QueryApi` | 3 requests, 2 users, 1 question, answers of 2 or 4 characters, history of 3 messages and 3 characters, cache on, 1 failure; symmetry | whole turns, own history, bounds, reusable cache entries, read-your-writes, one outcome per request |
| `QueryApiHistory` | violation: 2 requests of 1 user | history is documented as oldest first; the two turns of POST /query tie |
| `SeedCorpus` | 3 runs of any of the 3 programs, 2 files, a collection that exists or not, 1 interruption; symmetry | READY means searchable, duplicates need overlap, the script heals, a file missing at rest has somebody who stopped before it |
| `RequestPipeline` | 3 requests, 2 callers, limit 1, 2 minutes, 1 Redis error, every set of optional layers; symmetry | the limit, deserved refusals, counters without expiry, readable errors |
| `Accounts` | 3 requests of any kind, 2 e-mails, 1 key, 2 comments; symmetry | signup races, keys revoked while in use, overlapping ratings |
| `EvalRun` | 1 run or any comparison, 2 questions, 3 chunks, 2 starting settings; symmetry | runs are measured under their presets, the exit code, dominance in the fusion |

*Why the bounds are enough.* Ingestion: two documents meet only in the collection,
three jobs are an upload of each document and a reindex, or an upload and two
reindexes of one; two workers make every pairwise race; three batches are one per
upload and one to spare for a second run of an upload; one loss is enough for every
property about losses, since lost workers do not interact, and one duplicate runs one
job twice at the same time (the proof of `ChunksNeverReplaced` is for any number). CorrectiveRag: `TopK` below the number of chunks makes the reranker
choose; the default of two retries gives a first, a middle and a last round; with a
recursion limit of 11 the caps up to two fit, the last of them exactly, and three does
not, as seven do not under LangGraph's 25; a score scale of three values has both ends and the middle.
QueryApi: a third request lets a conversation have two turns before the question that
reads them, or two users compete for one conversation or one cache entry; a question of
one character and an answer of two fill the budget of three exactly, so the loop pops
one message, two or none, and an answer of four is more than the budget by itself; one
failure reaches each failing step, and a second would only
end another request.
SeedCorpus: a third process lets a visitor come while a script deletes what another
one seeds; two files give a first and a last; one interruption reaches each step, and
`SeedCorpusProofs` has no bound. RequestPipeline: a limit of one is exceeded by the
second of three requests, and a third is counted after the refusal or for another
caller; two minutes are a window and its successor. Accounts: two requests race and a
third uses what they left. EvalRun: two questions carry state from one to the next,
two presets from one run to the next; three chunks with two kept make the cut and a
disagreement of the two searches. `TypeOK` is an invariant of a run once, in
`IngestionOnce`; in the other modules it is the first conjunct of what is proved.
`CHECK_DEADLOCK FALSE` is set where the system comes to rest: when every job has ended
or was lost, when a run has returned, when every request or process is over, and when the harness has exited.

*Fairness.* `Ingestion!Fairness`: the event loop finishes a handler it has started
(`Enqueue`); Redis restores a message whose holder is gone and delivers what is in the
list to some worker with room; each live worker takes what it has prefetched and runs
the task body, whose calls return or raise. Nothing makes a client call, a call fail
or a process die. Redelivery of a message that is still held is not fair: it is
Redis's timer against the worker. `CorrectiveRag!FairSpec`: the run is one synchronous
call in a thread, so it goes on until it returns or raises; `Raise` is not fair.
`RunEnds` asks for an end of its own only where the cap fits the recursion limit.

## 4. Proofs

`IngestionProofs` assumes only `IngestionAssumption` (the `None` value is distinct,
the prefetch count is positive, the bounds are naturals). The properties are not
inductive by themselves. `IInv` adds: a message's job has its task; an idle worker
has no job and no open batch; a worker at `upsert` or `commit` has an open batch that
no document and no other worker has, and its document has no committed rows while it
does (the unique index); at `commit` its points are written; and an upload at
`succeed`, or already SUCCEEDED, has committed rows. With it, `CommittedMeansIndexed`,
`StatusHasAJob`, `SucceededMeansSearchable` and the action property `ChunksStay` hold
for every number of documents, jobs, workers, redeliveries and losses. There is one
lemma per action and `NextIInv` puts them together.

`IngestionOnceProofs` assumes `MaxDuplicates = 0`. `OnceInv` says that a job is in one
place (its route, the list, one worker's prefetch or one worker), that its state
follows from that place, that a document is uploaded once, and that stray points and a
bare collection have a failed or stranded job behind them. From it follow
`SucceededLeftNoStrays`, `BareCollectionExplained`, `TerminalForGood` and the
refinement `PipelineImplementsContract`, which maps every step to a step of
`IngestionContract` or a stutter (the commit of the chunk rows is `Index`). The
assumption is needed: with duplicates a job that ended goes back to RUNNING.

`CorrectiveRagProofs` assumes of `RagAssumption` that the bounds are naturals and pages
are not chunks; nothing relates the retry cap to the recursion limit. `RagInv` relates
the node to the retries, the documents and the prompt, and bounds the nodes visited by
three a round (`Rounds`). `RunsAreShort` concludes that LangGraph's limit ends only a run
whose cap is too high for it, `RecursionLimit < 3 * maxRetries + 5`: with the default
limit of 25, seven retries or more. `AnswersAreSourced`,
`DegradationIsOrdered`, `RunsAreShort`, `StreamsMatch` and `RunImplementsContract`
follow. The action property `DocumentsStaySettled` needs no invariant: it goes through
the nodes and shows that only grading, retrieval and the web search touch the documents.

`QueryApiProofs` assumes that the set of requests is finite (histories are finite
sequences) and `None` distinct. `QueryInv` ties the step of a handler to what it has
written (`Written`), a conversation to the user of the request that opened it
(`Threads`), and a cached answer to a run without history (`Reused`): that a
conversation belongs to one user is what keeps histories private, and that only first
questions are stored is what makes reuse sound. `WholeTurns`, `HistoriesArePrivate`,
`ReuseIsSound`, `OutcomesAreSingle`.

`MemoryInv` adds what histories are read from. An answer is written by the step that
ends its run and by no other (`Settled`), so the time, size and conversation of a saved
message never change (`NothingIsRewritten`), and what was true of a history when it was
loaded stays true: that it is within the limits (`HistoriesAreBounded`), and that an
answer its client had seen is in it or was cut for the limits (`ClientsReadTheirWrites`).
The second needs that an answer is committed before it is shown (in `Settled`) and that
every answer a client has seen is in the conversation it goes on with (`Recalls`).
`OrderInv` adds the times: a history is sorted by `created_at`, and the answer of a
streamed turn has a later one than its question. `StreamedOldestFirst` concludes that a
streamed answer never precedes its question; so the tie of the two turns of POST /query
is all there is behind the violation that `QueryApiHistory` finds.

`SeedCorpusProofs` has no assumption on the number of processes or files. `SeedInv`
adds that processes at work have met (`Together`), that a process has inserted nothing
before its loop, and that a file it is about to insert is there already only by a
process it overlaps (`Looked`). `ReadyMeansSearchable`, `DuplicatesNeedOverlap`.

Two stronger invariants (together `CorpusInv`) say what is left to do. `Healing` follows
a script that has met nobody: in its loop every document of the workspace but the one
it is at is READY and every file before that one is there; once it is done, whoever is
at work finds the workspace complete and has nothing to insert or to delete (`AtPeace`),
which keeps it complete and gives `ScriptsHeal`. `Accounted` has no condition: every file
of a tenant has a document, or a process of the tenant owes it or stopped at it or before
(`Owes`), unless nobody has got further than the door (`Fresh`); a document that is not
READY is at its own process, or where that one stopped (`InHand`). A script owes every
file from the moment it looks for documents to delete, and a process whose document was
deleted owes nothing, because the script that deleted it does. When everybody has ended,
only who stopped owes anything: `CorporaEndComplete`. The requests of `ensure_collection`
touch nothing else (`Ensured`), so the collection only decides who stops.

`RequestPipelineProofs` assumes a finite set of requests. Nobody whose Redis calls
returned reaches the routes with a number above the limit (`LetThrough`: the decision of
`dispatch`). Within the minute of a counter the numbers INCR hands out differ
(`Distinct`), because the key outlives its minute (`Outlives`) and is at least every
number it gave (`Counted`); so the requests admitted inject into `1 .. Limit`. A counter is at most the number of requests that
reached it (`NotAhead`), so a refusal is deserved. `LimitHolds`, `RefusalsAreDeserved`,
`LeaksExplained`. Outside of all layers only the unexpected error is answered
(`LastResort`), and from the rate limit outwards every response passes the CORS and the
context layer, whatever layers are switched on: `ErrorsReachTheBrowser`.

`AccountsProofs`: what a request has looked up is still so or another one overlaps it
(`Fresh`), an account was made by a signup that was told so (`Made`), and a request
with a revoked key that began after the revocation is nowhere past its lookup
(`Shut`). `SignupsDecide`, `RevocationsHold`, `RatingsStand`, `ErrorsAreRaces`.

`EvalRunProofs`: inside a run the settings are those of the preset at the head of the
list, the cached reranker was built from them, and so was all that the answers used.
`RunsAreComparable`, `NoTraceOfPresets`. `ExitInv` relates the table to the command
line: as long as nothing raised, its names are the first of those asked for and `todo`
holds the rest, with the run that is being left in both; and the totals of a single run
are those of its row. It gives `ExitIsTruthful`. `FusionIsFair` rests on the arithmetic
of the ranking: `Unit` is divisible by every `RrfK + rank`, so a chunk that no search
ranks below another has at least its score (`PartOrder`, `FusedOrder`) and was met
before it if the scores are equal; the order is strict and total, so places are filled
without gaps (`PlacesAreFilled`), and the cut keeps the chunk that comes first.

The library's induction theorems take an operator and are out of the provers' reach.
Where a proof needs induction over numbers (the product in `Unit`, the sum in `SumOf`)
it uses `SetInduction`, which is stated for a set of naturals and proved from the
well-foundedness of `<`; the set is that of the `n` for which a function with the
defining equation exists, or for which its value has the property in question.

Every safety invariant and every action property that a passing run checks is stated by
a theorem. Only model-checked are `JobsSettle`, `JobsTerminate` and `RunEnds`: liveness
under fairness and ENABLED are outside the proof system. No module declares a recursive
operator.

## 5. Plan

Done: (1) `Ingestion` with its contract and proofs; (2) `CorrectiveRag` with its
contract and proofs; (3) `QueryApi`, (4) `SeedCorpus`, (5) `RequestPipeline`,
(6) `Accounts`, with feedback, and (7) `EvalRun`, with retrieval, each with proofs.
Every safety property has its theorem. Left, in order of use:

8. The window between load and commit of a status transaction (2.1).
9. The Ask page of the web client: a stream that outlives its conversation.
10. A composition of `Ingestion` and the answer cache: staleness of answers, which
    only the time to live of an entry bounds today.

## 6. Not modelled

Provider SDKs, prompts, parsing and chunking: text; the models take any reply and any
exception. Schemas, migrations, deployment files: declarations. Logging and tracing
record and decide nothing. The dashboard and the settings route only read (their 95th
percentile is the smaller of two latencies). The probes of `api/health.py` look at each
dependency by itself and keep no state. The connection pool: no property here is about
time. Landing pages and layout; the web client so far.
