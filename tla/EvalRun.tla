-------------------------------- MODULE EvalRun --------------------------------
(***************************************************************************)
(* The evaluation harness, eval/run_eval.py, with the retrieval stage it   *)
(* compares: presets overwrite the process-wide settings, the retriever is *)
(* built from the settings on every call and the reranker once, in a cache *)
(* that the preset has to clear; runs are scored and persisted under the   *)
(* name of a preset, or under none with the settings as they are.          *)
(*                                                                         *)
(* Environment: the rankings of the two searches, the cross-encoder, the   *)
(* judge's marks and whether the graph asks for a rewrite (CorrectiveRag   *)
(* has its nodes) are any value; each call may raise.  ensure_corpus is in *)
(* SeedCorpus; retrieval metrics and tables are left out.                  *)
(***************************************************************************)
EXTENDS Naturals, FiniteSets, Sequences, SequencesExt

CONSTANTS
    Chunks,
    RetrieveTopN, PrefetchLimit,  \* settings.retrieve_top_n, hybrid_prefetch_limit
    K,                            \* --k
    RrfK, DenseWeight, SparseWeight,
    Questions,                    \* how many questions the dataset has
    Configured,                   \* the settings a process may be started with
    Scale,                        \* a mark is 0 .. Scale for 0.0 .. 1.0
    None

ASSUME EvalAssumption ==
    /\ {RetrieveTopN, PrefetchLimit, K} \subseteq Nat \ {0}
    /\ {RrfK, DenseWeight, SparseWeight, Questions, Scale} \subseteq Nat
    /\ Configured \subseteq [mode : {"dense", "sparse", "hybrid"}, rerank : BOOLEAN, retries : Nat]
    /\ None \notin Nat \cup {"ok", "usage", "error", "below_threshold"}

CONFIG_PRESETS ==
    [dense         |-> [mode |-> "dense",  rerank |-> FALSE, retries |-> 0],
     hybrid        |-> [mode |-> "hybrid", rerank |-> FALSE, retries |-> 0],
     hybrid_rerank |-> [mode |-> "hybrid", rerank |-> TRUE,  retries |-> 0],
     naive         |-> [mode |-> "dense",  rerank |-> FALSE, retries |-> 0],
     corrective    |-> [mode |-> "hybrid", rerank |-> TRUE,  retries |-> 2]]

Presets == DOMAIN CONFIG_PRESETS

\* --compare with two names, and --min-faithfulness.
Arguments ==
    [compare : {None} \cup {<<a, b>> : a, b \in Presets \cup {"unknown"}},
     gate : {None} \cup (0 .. Scale)]

VARIABLES
    args,
    settings,    \* the settings a preset overwrites
    start,       \* their values when the process began
    reranker,    \* what get_reranker has cached: None, "cross" or "noop"
    stage,
    todo,        \* names of the runs still to do, "settings" without a preset
    hits,        \* the rankings of the two searches
    candidates,  \* what the retriever made of them
    documents,   \* what the reranker left
    rewrites,    \* of the question at hand
    run,         \* this run: answers, total of the marks, what they used, most rewrites
    eval_runs,   \* the table, as rows of this process
    exit         \* None, or how the process ended

preset == <<settings, reranker>>
query  == <<hits, candidates, documents, rewrites>>
vars   == <<args, start, preset, stage, todo, query, run, eval_runs, exit>>

NoRun == [answered |-> 0, total |-> 0, used |-> {}, most |-> 0]

Init ==
    /\ args \in Arguments
    /\ start \in Configured /\ settings = start
    /\ reranker = None
    /\ stage = "main" /\ todo = <<>>
    /\ hits = <<<<>>, <<>>>> /\ candidates = <<>> /\ documents = <<>> /\ rewrites = 0
    /\ run = NoRun /\ eval_runs = <<>> /\ exit = None

-----------------------------------------------------------------------------
(* Retrieval.                                                              *)

Largest(m, n) == IF m >= n THEN m ELSE n
UpTo(s, n) == SubSeq(s, 1, IF n <= Len(s) THEN n ELSE Len(s))

\* A search ranks chunks of the tenant, at most as many as it is asked for.
Rankings(n) ==
    {s \in UNION {[1 .. m -> Chunks] : m \in 0 .. n} : \A i, j \in DOMAIN s : i # j => s[i] # s[j]}

Ranked(c, s) == \E i \in DOMAIN s : s[i] = c
Rank(c, s)   == CHOOSE i \in DOMAIN s : s[i] = c

\* How far a search of the hybrid goes: the largest rank there is.
Depth == Largest(RetrieveTopN, PrefetchLimit)

\* weight / (rrf_k + rank) in units that make the division exact.
Unit == LET product[i \in 0 .. Depth] ==
                IF i = 0 THEN 1 ELSE product[i - 1] * (RrfK + i)
        IN product[Depth]
Part(c, s, w) == IF Ranked(c, s) THEN (w * Unit) \div (RrfK + Rank(c, s)) ELSE 0

\* Fault: the score of a chunk is the one of the last list that has it.
LastScore(c, dense, sparse) ==
    IF Ranked(c, sparse) THEN Part(c, sparse, SparseWeight) ELSE Part(c, dense, DenseWeight)

Fused(c, dense, sparse) == Part(c, dense, DenseWeight) + Part(c, sparse, SparseWeight)

\* When a chunk was met: the dense list is read first.
Met(c, dense, sparse) ==
    IF Ranked(c, dense) THEN Rank(c, dense) ELSE Len(dense) + Rank(c, sparse)

\* By score, highest first; equal scores in the order the chunks were met.
Before(c, d, dense, sparse) ==
    \/ Fused(c, dense, sparse) > Fused(d, dense, sparse)
    \/ /\ Fused(c, dense, sparse) = Fused(d, dense, sparse)
       /\ Met(c, dense, sparse) < Met(d, dense, sparse)

ReciprocalRankFusion(dense, sparse, k) ==
    LET chunks == ToSet(dense) \cup ToSet(sparse)
        place  == [c \in chunks |->
                      Cardinality({d \in chunks : Before(d, c, dense, sparse)}) + 1]
    IN UpTo([i \in 1 .. Cardinality(chunks) |-> CHOOSE c \in chunks : place[c] = i], k)

\* The rankings asked of the two searches under a retriever mode.
Searches(mode) ==
    CASE mode = "dense"  -> {<<s, <<>>>> : s \in Rankings(RetrieveTopN)}
      [] mode = "sparse" -> {<<<<>>, s>> : s \in Rankings(RetrieveTopN)}
      [] mode = "hybrid" -> Rankings(Depth) \X Rankings(Depth)

\* get_retriever().retrieve
Retrieved(mode, h) ==
    IF mode = "hybrid" THEN ReciprocalRankFusion(h[1], h[2], RetrieveTopN) ELSE h[1] \o h[2]

\* The cross-encoder may put the chunks in any order; without it they keep theirs.
Reranked(kind, found) ==
    IF kind = "noop" THEN {UpTo(found, K)}
    ELSE {UpTo(s, K) : s \in SetToSeqs(ToSet(found))}

-----------------------------------------------------------------------------
(* The process.                                                            *)

Goto(s) == stage' = s /\ UNCHANGED exit

Main ==
    /\ stage = "main"
    /\ IF args.compare # None /\ ~(ToSet(args.compare) \subseteq Presets)
       THEN stage' = "exit" /\ exit' = "usage" /\ UNCHANGED todo
       ELSE Goto("enter") /\ todo' = IF args.compare = None THEN <<"settings">> ELSE args.compare
    /\ UNCHANGED <<args, start, preset, query, run, eval_runs>>

\* use_preset, and run_dataset up to the first question.
Enter ==
    /\ stage = "enter" /\ todo # <<>>
    /\ run' = NoRun /\ rewrites' = 0
    /\ IF Head(todo) \in Presets
       THEN settings' = CONFIG_PRESETS[Head(todo)] /\ reranker' = None
       ELSE UNCHANGED preset
    /\ Goto(IF Questions = 0 THEN "persist" ELSE "retrieve")
    /\ UNCHANGED <<args, start, todo, hits, candidates, documents, eval_runs>>

\* Fault: the retriever is cached too, from the settings at the start.
RetrieveFromCache ==
    /\ stage = "retrieve"
    /\ hits' \in Searches(start.mode)
    /\ candidates' = Retrieved(start.mode, hits')
    /\ run' = [run EXCEPT !.used = @ \cup {start.mode}]
    /\ Goto("rerank")
    /\ UNCHANGED <<args, start, preset, todo, documents, rewrites, eval_runs>>

Retrieve ==
    /\ stage = "retrieve"
    /\ hits' \in Searches(settings.mode)
    /\ candidates' = Retrieved(settings.mode, hits')
    /\ run' = [run EXCEPT !.used = @ \cup {settings.mode}]
    /\ Goto("rerank")
    /\ UNCHANGED <<args, start, preset, todo, documents, rewrites, eval_runs>>

Rerank ==
    LET kind == IF reranker # None THEN reranker ELSE IF settings.rerank THEN "cross" ELSE "noop" IN
    /\ stage = "rerank"
    /\ reranker' = kind
    /\ documents' \in Reranked(kind, candidates)
    /\ run' = [run EXCEPT !.used = @ \cup {kind}]
    /\ Goto("decide")
    /\ UNCHANGED <<args, start, settings, todo, hits, candidates, rewrites, eval_runs>>

\* The grader found nothing relevant and retries are left: another retrieval.
Rewrite ==
    /\ stage = "decide" /\ rewrites < settings.retries
    /\ rewrites' = rewrites + 1
    /\ run' = [run EXCEPT !.most = Largest(@, rewrites')]
    /\ hits' = <<<<>>, <<>>>> /\ candidates' = <<>> /\ documents' = <<>>
    /\ Goto("retrieve")
    /\ UNCHANGED <<args, start, preset, todo, eval_runs>>

\* The judge's reply: the first number in it, clamped, 0 without one.
Marks == 0 .. Scale

\* The answer is generated and judged; the next question starts over.
Score ==
    /\ stage = "decide"
    /\ \E mark \in Marks :
           run' = [run EXCEPT !.answered = @ + 1, !.total = @ + mark]
    /\ hits' = <<<<>>, <<>>>> /\ candidates' = <<>> /\ documents' = <<>> /\ rewrites' = 0
    /\ Goto(IF run'.answered = Questions THEN "persist" ELSE "retrieve")
    /\ UNCHANGED <<args, start, preset, todo, eval_runs>>

Persist ==
    /\ stage = "persist"
    /\ eval_runs' = Append(eval_runs, [name |-> Head(todo), answers |-> run])
    /\ Goto("leave")
    /\ UNCHANGED <<args, start, preset, todo, query, run, exit>>

\* Fault: a run that raises is skipped.
RaiseAndGoOn ==
    /\ stage \in {"retrieve", "rerank", "decide", "persist"}
    /\ Goto("leave")
    /\ hits' = <<<<>>, <<>>>> /\ candidates' = <<>> /\ documents' = <<>> /\ rewrites' = 0
    /\ UNCHANGED <<args, start, preset, todo, run, eval_runs>>

\* A search, a model, the judge or the database raises.
Raise ==
    /\ stage \in {"retrieve", "rerank", "decide", "persist"}
    /\ stage' = "leave" /\ exit' = "error"
    /\ hits' = <<<<>>, <<>>>> /\ candidates' = <<>> /\ documents' = <<>> /\ rewrites' = 0
    /\ UNCHANGED <<args, start, preset, todo, run, eval_runs>>

\* Fault: the settings are restored after the block instead of in a finally.
LeaveOnSuccess ==
    /\ stage = "leave"
    /\ IF Head(todo) \in Presets /\ exit = None
       THEN settings' = start /\ reranker' = None
       ELSE UNCHANGED preset
    /\ todo' = Tail(todo)
    /\ stage' = IF exit = None THEN "enter" ELSE "exit"
    /\ UNCHANGED <<args, start, query, run, eval_runs, exit>>

\* The finally of use_preset.
Leave ==
    /\ stage = "leave"
    /\ IF Head(todo) \in Presets
       THEN settings' = start /\ reranker' = None
       ELSE UNCHANGED preset
    /\ todo' = Tail(todo)
    /\ stage' = IF exit = None THEN "enter" ELSE "exit"
    /\ UNCHANGED <<args, start, query, run, eval_runs, exit>>

\* The mean is below the threshold when the total is below that many times the number;
\* without questions it is 0.  A comparison returns before the threshold is looked at.
Exit ==
    /\ stage = "enter" /\ todo = <<>>
    /\ stage' = "exit"
    /\ exit' = IF /\ args.compare = None /\ args.gate # None
                  /\ run.total < args.gate * Largest(run.answered, 1)
               THEN "below_threshold" ELSE "ok"
    /\ UNCHANGED <<args, start, preset, todo, query, run, eval_runs>>

Next ==
    \/ Main \/ Enter \/ Leave \/ Exit \/ Raise
    \/ Retrieve \/ Rerank \/ Rewrite \/ Score \/ Persist

Spec == Init /\ [][Next]_vars
-----------------------------------------------------------------------------
(* Properties.                                                             *)

TypeOK ==
    /\ args \in Arguments
    /\ {start, settings} \subseteq Configured \cup {CONFIG_PRESETS[p] : p \in Presets}
    /\ reranker \in {None, "cross", "noop"}
    /\ stage \in {"main", "enter", "retrieve", "rerank", "decide", "persist", "leave", "exit"}
    /\ todo \in Seq(Presets \cup {"settings"})
    /\ rewrites \in Nat
    /\ exit \in {None, "ok", "usage", "error", "below_threshold"}

\* The retriever and the reranker of these settings.
Allowed(s) == {s.mode, IF s.rerank THEN "cross" ELSE "noop"}

Under(name) == IF name \in Presets THEN CONFIG_PRESETS[name] ELSE start

\* A persisted run is the whole dataset, and every answer of it came from the retriever,
\* the reranker and the number of rewrites of the preset it is named after, whatever ran
\* before it in the process (use_preset, the cache of get_reranker, run_dataset).
ScoredUnderItsPreset ==
    \A i \in DOMAIN eval_runs :
        LET r == eval_runs[i] IN
        /\ r.answers.answered = Questions
        /\ r.answers.used \subseteq Allowed(Under(r.name))
        /\ r.answers.most <= Under(r.name).retries

\* A preset leaves no trace: between the runs and at the exit, an exception in the middle
\* of a run included, the settings are those the process began with and no reranker
\* built under a preset is cached.
PresetsLeaveNoTrace ==
    stage \in {"enter", "exit"} =>
        settings = start /\ (reranker # None => reranker \in Allowed(start))

\* The exit tells what was persisted: a command line that names an unknown preset, in
\* either place, leaves no run behind; success leaves all it was asked for, in order,
\* and a single run that succeeds reached its threshold.
ExitTellsWhatIsPersisted ==
    LET names == [i \in DOMAIN eval_runs |-> eval_runs[i].name] IN
    /\ exit = "usage" => eval_runs = <<>>
    /\ exit = "ok" =>
        IF args.compare # None THEN names = args.compare
        ELSE /\ names = <<"settings">>
             /\ args.gate # None =>
                 eval_runs[1].answers.total >= args.gate * Questions

\* Of two chunks the fusion keeps, one that no search ranks below the other comes first,
\* and the other is not kept without it: the weights and the rank constant only decide
\* between chunks that the searches disagree on (reciprocal_rank_fusion).
Dominates(c, d) ==
    /\ \E i \in {1, 2} : Ranked(d, hits[i])
    /\ \A i \in {1, 2} : Ranked(d, hits[i]) =>
           Ranked(c, hits[i]) /\ Rank(c, hits[i]) < Rank(d, hits[i])

FusionRespectsDominance ==
    \A c, d \in Chunks : Dominates(c, d) /\ Ranked(d, candidates) =>
        Ranked(c, candidates) /\ Rank(c, candidates) < Rank(d, candidates)
=============================================================================
