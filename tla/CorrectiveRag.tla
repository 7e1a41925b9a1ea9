---------------------------- MODULE CorrectiveRag ----------------------------
(***************************************************************************)
(* The corrective-RAG query graph: the LangGraph wiring of graphs/graph.py,*)
(* the nodes of graphs/nodes.py and the shaping of the final state by      *)
(* query_service, for one run of the graph (one question of one tenant).   *)
(* Both endpoints run this graph; the streaming one also forwards the      *)
(* tokens the generate node writes.                                        *)
(*                                                                         *)
(* Environment: what the retriever, the reranker, the LLM and the web      *)
(* search return is any value they can return, and each call may raise,    *)
(* which ends the run.  Documents are a set: their order, and repetitions  *)
(* in a grader's reply, are left out.  A text is insufficient when it      *)
(* contains the fixed insufficiency sentence, and blank when it is white   *)
(* space only.                                                             *)
(***************************************************************************)
EXTENDS Integers, FiniteSets

CONSTANTS
    Chunks,         \* chunks of the tenant's documents
    WebPages,       \* web-search results
    Questions,      \* the question and its rewrites
    None,
    TopK,           \* settings.query_top_k, or the k of the request
    MaxRetries,     \* bound on the settings.max_query_retries considered
    MaxWeb,         \* settings.web_search_max_results
    Scale,          \* grounding scores are 0 .. Scale for 0.0 .. 1.0
    RecursionLimit  \* nodes LangGraph lets a run visit, 25 by default

ASSUME RagAssumption ==
    /\ TopK \in Nat \ {0} /\ MaxRetries \in Nat /\ MaxWeb \in Nat /\ Scale \in Nat \ {0}
    /\ Chunks \cap WebPages = {}
    /\ None \notin Nat
    /\ RecursionLimit \in Nat

VARIABLES
    webConfigured,  \* settings.web_search_configured, fixed for the process
    maxRetries,     \* settings.max_query_retries, likewise
    node,        \* the node to run next; "end" is shaped into a result
    question,
    documents,
    relevant,    \* documents_relevant
    webUsed,     \* web_search_used
    generation,  \* "empty", "insufficient" or "text": the joined tokens, stripped
    grounding,
    retries,
    supersteps,  \* nodes run so far
    prompt,      \* the documents the answer was generated from
    streamed,    \* the text the tokens on the custom stream channel add up to
    result       \* Pending, Raised or the QueryResult

state == <<question, documents, relevant, webUsed, generation, grounding, retries>>
ghost == <<prompt, streamed>>
vars  == <<webConfigured, maxRetries, node, state, supersteps, ghost, result>>

UpTo(S, n) == {s \in SUBSET S : Cardinality(s) <= n}

\* A grader reply: without an array, with one that no number can be read from and
\* that is not the empty JSON array, or with the numbers of the documents it picks.
Replies ==
    [form : {"no_array", "unreadable"}, picked : {{}}]
        \cup [form : {"array"}, picked : SUBSET (Chunks \cup WebPages)]

\* Grounding scores, None when there is nothing to score or no number in the reply.
Scores == {None} \cup (0 .. Scale)

\* What the LLM writes, token by token, and what is left of it without outer blanks.
Texts == {"nothing", "blank", "insufficient", "text"}
Strip(text) == IF text \in {"nothing", "blank"} THEN "empty" ELSE text

Pending == [status |-> "pending"]
Raised  == [status |-> "raised"]
Results ==
    [status : {"answered"}, answer : {"empty", "insufficient", "text"},
     citations : SUBSET (Chunks \cup WebPages), grounding : Scores,
     selfCorrected : BOOLEAN, usedWeb : BOOLEAN]

\* _initial_state
Init ==
    /\ webConfigured \in BOOLEAN
    /\ maxRetries \in 0 .. MaxRetries
    /\ node = "retrieve"
    /\ question \in Questions
    /\ documents = {} /\ relevant = FALSE /\ webUsed = FALSE
    /\ generation = "empty" /\ grounding = None /\ retries = 0
    /\ supersteps = 0 /\ prompt = {} /\ streamed = "nothing"
    /\ result = Pending

\* LangGraph runs a node and merges its update into the state.
Run(n, next) ==
    /\ node = n
    /\ supersteps < RecursionLimit
    /\ supersteps' = supersteps + 1
    /\ node' = next
    /\ UNCHANGED <<webConfigured, maxRetries, result>>

\* Fusion and reranking leave at most top_k chunks.
Retrieve ==
    /\ Run("retrieve", "grade")
    /\ documents' \in UpTo(Chunks, TopK)
    /\ UNCHANGED <<question, relevant, webUsed, generation, grounding, retries, ghost>>

\* _parse_relevant_indices, and what grade_documents keeps: everything, if there is
\* no array; nothing, if no number was read.
Kept(reply) == IF reply.form = "no_array" THEN documents ELSE reply.picked

\* Fault: the web is asked before the rewrites.
DecideWebFirst(isRelevant) ==
    IF isRelevant THEN "generate"
    ELSE IF webConfigured THEN "web"
    ELSE IF retries < maxRetries THEN "rewrite" ELSE "generate"

\* decide_after_grade, on the state grade_documents leaves
Decide(isRelevant) ==
    IF isRelevant THEN "generate"
    ELSE IF retries < maxRetries THEN "rewrite"
    ELSE IF webConfigured THEN "web" ELSE "generate"

GradeNothing ==
    /\ documents = {}
    /\ Run("grade", Decide(FALSE))
    /\ relevant' = FALSE
    /\ UNCHANGED <<question, documents, webUsed, generation, grounding, retries, ghost>>

\* Documents narrow to the kept ones, and stay all in place when none is kept.
Grade(reply) ==
    /\ documents # {}
    /\ reply.picked \subseteq documents
    /\ relevant' = (Kept(reply) # {})
    /\ documents' = IF relevant' THEN Kept(reply) ELSE documents
    /\ Run("grade", Decide(relevant'))
    /\ UNCHANGED <<question, webUsed, generation, grounding, retries, ghost>>

\* Fault: the retry is not counted.
RewriteUncounted ==
    /\ Run("rewrite", "retrieve")
    /\ question' \in Questions
    /\ UNCHANGED <<documents, relevant, webUsed, generation, grounding, retries, ghost>>

\* Fault: the update also resets the documents.
RewriteResets ==
    /\ Run("rewrite", "retrieve")
    /\ question' \in Questions
    /\ retries' = retries + 1
    /\ documents' = {}
    /\ UNCHANGED <<relevant, webUsed, generation, grounding, ghost>>

\* An empty rewrite falls back to the question it was given.
Rewrite ==
    /\ Run("rewrite", "retrieve")
    /\ question' \in Questions
    /\ retries' = retries + 1
    /\ UNCHANGED <<documents, relevant, webUsed, generation, grounding, ghost>>

\* Fault: the pages are added to the rejected documents.
WebSearchAppends ==
    /\ Run("web", "generate")
    /\ \E pages \in UpTo(WebPages, MaxWeb) : documents' = documents \cup pages
    /\ relevant' = (documents' # {})
    /\ webUsed' = TRUE
    /\ UNCHANGED <<question, generation, grounding, retries, ghost>>

\* The pages that have content replace the documents, be there none.
WebSearch ==
    /\ Run("web", "generate")
    /\ documents' \in UpTo(WebPages, MaxWeb)
    /\ relevant' = (documents' # {})
    /\ webUsed' = TRUE
    /\ UNCHANGED <<question, generation, grounding, retries, ghost>>

GenerateNothing ==
    /\ documents = {}
    /\ Run("generate", "verify")
    /\ generation' = "insufficient"
    /\ UNCHANGED <<question, documents, relevant, webUsed, grounding, retries, ghost>>

\* Fault: the prompt is built from one document.
GenerateFromOne ==
    /\ documents # {}
    /\ Run("generate", "verify")
    /\ streamed' \in Texts
    /\ generation' = Strip(streamed')
    /\ prompt' = {CHOOSE c \in documents : TRUE}
    /\ UNCHANGED <<question, documents, relevant, webUsed, grounding, retries>>

\* Fault: the stream writer is not found, and the tokens are only joined.
GenerateUnstreamed ==
    /\ documents # {}
    /\ Run("generate", "verify")
    /\ \E text \in Texts : generation' = Strip(text)
    /\ prompt' = documents
    /\ UNCHANGED <<question, documents, relevant, webUsed, grounding, retries, streamed>>

\* Every token is written as it comes; the answer is their join, stripped.
Generate ==
    /\ documents # {}
    /\ Run("generate", "verify")
    /\ streamed' \in Texts
    /\ generation' = Strip(streamed')
    /\ prompt' = documents
    /\ UNCHANGED <<question, documents, relevant, webUsed, grounding, retries>>

\* _parse_grounding clamps the first number of the reply; the minus sign is not read.
ParseGrounding(raw) == IF raw = None THEN None ELSE IF raw > Scale THEN Scale ELSE raw

Verify ==
    /\ Run("verify", "end")
    /\ \E raw \in {None} \cup (0 .. 2 * Scale) :
        grounding' = IF documents = {} \/ generation = "insufficient"
                     THEN None ELSE ParseGrounding(raw)
    /\ UNCHANGED <<question, documents, relevant, webUsed, generation, retries, ghost>>

\* answer_question and stream_answer: _citations_for, then the result
Shape ==
    /\ node = "end"
    /\ node' = "done"
    /\ result' = [status        |-> "answered",
                  answer        |-> generation,
                  citations     |-> IF generation = "insufficient" THEN {} ELSE documents,
                  grounding     |-> grounding,
                  selfCorrected |-> retries > 0,
                  usedWeb       |-> webUsed]
    /\ UNCHANGED <<webConfigured, maxRetries, state, supersteps, ghost>>

Over == {"done", "raised", "exhausted"}

\* A retriever, LLM or search error aborts the run; the LLM may fail mid-stream.
Raise ==
    /\ node \notin Over \cup {"end"}
    /\ supersteps < RecursionLimit
    /\ node' = "raised"
    /\ result' = Raised
    /\ streamed' \in IF node = "generate" /\ documents # {} THEN Texts ELSE {streamed}
    /\ UNCHANGED <<webConfigured, maxRetries, state, supersteps, prompt>>

\* LangGraph raises a GraphRecursionError instead of running one node more.
OutOfSteps ==
    /\ node \notin Over \cup {"end"}
    /\ supersteps = RecursionLimit
    /\ node' = "exhausted"
    /\ result' = Raised
    /\ UNCHANGED <<webConfigured, maxRetries, state, supersteps, ghost>>

Step ==
    \/ Retrieve \/ GradeNothing \/ \E reply \in Replies : Grade(reply)
    \/ Rewrite \/ WebSearch \/ GenerateNothing \/ Generate \/ Verify \/ Shape

Next == Step \/ Raise \/ OutOfSteps

Spec == Init /\ [][Next]_vars

\* The run is one synchronous call; it goes on until it returns or raises.
FairSpec == Spec /\ WF_vars(Step \/ OutOfSteps)

-----------------------------------------------------------------------------
(* Properties.                                                             *)

TypeOK ==
    /\ node \in {"retrieve", "grade", "rewrite", "web", "generate", "verify", "end",
                "done", "raised", "exhausted"}
    /\ webConfigured \in BOOLEAN /\ maxRetries \in 0 .. MaxRetries
    /\ question \in Questions
    /\ documents \subseteq Chunks \cup WebPages
    /\ relevant \in BOOLEAN /\ webUsed \in BOOLEAN /\ streamed \in Texts
    /\ generation \in {"empty", "insufficient", "text"}
    /\ grounding \in Scores
    /\ retries \in 0 .. maxRetries
    /\ supersteps \in 0 .. RecursionLimit
    /\ prompt \subseteq Chunks \cup WebPages
    /\ result \in {Pending, Raised} \cup Results

\* Every citation was in the prompt the answer was generated from, and an answer
\* that was not generated from documents has none (_citations_for reads the final
\* state, generate read an earlier one).
CitationsWereInThePrompt ==
    result.status = "answered" => result.citations \subseteq prompt

\* The retry cap bounds the graph: three nodes a round and five for the last one.  So
\* LangGraph's limit ends a run only under a cap too high for it (max_query_retries has
\* no upper limit), and never because the loop goes on past the cap.
WorkIsBounded ==
    /\ supersteps <= 3 * retries + 5
    /\ node = "exhausted" => RecursionLimit < 3 * maxRetries + 5

\* The web is the last resort: it is asked only at the retry cap, and its pages are
\* never mixed with the chunks of the workspace.
WebIsLastResort ==
    /\ webUsed => webConfigured /\ retries = maxRetries /\ documents \subseteq WebPages
    /\ documents \cap WebPages # {} => webUsed

\* Below the cap no answer is generated from documents the grader rejected.
OnlyGradedBelowTheCap ==
    node \in {"generate", "verify", "end"} /\ retries < maxRetries =>
        relevant /\ documents # {}

\* What a run may fall back on, and in which order: the workspace, as often as the cap
\* allows, then the web if there is one, and only then whatever is left.
DegradesInOrder == WebIsLastResort /\ OnlyGradedBelowTheCap

\* What the client has been streamed is the answer it is then given, up to outer blanks:
\* the tokens are written raw and only their join is stripped, so a client may be sent
\* blanks and an empty answer, but never other words.  A run without documents streams
\* nothing and ends with the insufficiency answer.
StreamMatchesAnswer ==
    result.status = "answered" =>
        IF prompt = {}
        THEN streamed = "nothing" /\ result.answer = "insufficient"
        ELSE result.answer = Strip(streamed)

\* Grading only ever drops documents, and only grading, retrieval and the web
\* search touch them: what is verified and cited is what was generated from.
DocumentsSettle ==
    [][/\ node = "grade" => documents' \subseteq documents
       /\ node \in {"rewrite", "generate", "verify", "end"} => documents' = documents]_vars

\* nodes.py:grade_documents says it keeps all documents on a parse failure, "so a
\* flaky grader never silently drops a correct answer": neither a reply without an
\* array nor one with an unreadable array drops any.
UnparseableReplyKeepsAll ==
    [][\A reply \in Replies : Grade(reply) /\ reply.form # "array" =>
        relevant' /\ documents' = documents]_vars

\* Every run whose cap fits into LangGraph's limit comes to its answer, or to the error
\* of one of its calls: the rewrite loop ends by itself.
RunEnds == maxRetries <= (RecursionLimit - 5) \div 3 => <>(node \in {"done", "raised"})

\* For its callers a run is one step of the contract.
Contract == INSTANCE AskContract

ImplementsContract == Contract!Spec

=============================================================================
