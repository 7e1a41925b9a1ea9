------------------------- MODULE CorrectiveRagProofs -------------------------
(***************************************************************************)
(* Theorems about one run of the query graph, for any chunks, pages, top_k *)
(* and retry cap, and any replies of the retriever, the LLM and the web    *)
(* search.                                                                 *)
(*                                                                         *)
(* The properties speak of what is left at the end; the inductive          *)
(* invariant RagInv says of each node what the nodes before it have done.  *)
(***************************************************************************)
EXTENDS CorrectiveRag, TLAPS

\* Nothing was generated before the generate node.
Ungenerated ==
    node \in {"retrieve", "grade", "rewrite", "web", "generate"} =>
        /\ prompt = {} /\ streamed = "nothing"
        /\ generation = "empty" /\ grounding = None

\* After it the answer is from the documents in the state, or there were none.
Generated ==
    node \in {"verify", "end"} =>
        /\ prompt = documents
        /\ documents = {} => streamed = "nothing" /\ generation = "insufficient"
        /\ documents # {} => generation = Strip(streamed)
        /\ node = "verify" \/ generation = "insufficient" => grounding = None

\* The web node is reached at the cap, once, and documents come from one source.
Sourced ==
    /\ node \in {"retrieve", "grade", "rewrite", "web"} => ~webUsed
    /\ node = "web" => webConfigured /\ retries = maxRetries
    /\ node = "rewrite" => retries < maxRetries
    /\ ~webUsed => documents \subseteq Chunks

\* How many nodes a run has visited when it comes to one: three a round.
Rounds ==
    /\ node = "retrieve" => supersteps <= 3 * retries
    /\ node = "grade" => supersteps <= 3 * retries + 1
    /\ node \in {"rewrite", "web"} => supersteps <= 3 * retries + 2
    /\ node = "generate" => supersteps <= 3 * retries + 3
    /\ node = "verify" => supersteps <= 3 * retries + 4

\* A result exists once the run is over.
Shaped ==
    /\ node \notin Over => result = Pending
    /\ node \in {"raised", "exhausted"} => result = Raised
    /\ node = "done" => result.status = "answered"

RagInv ==
    /\ TypeOK
    /\ Ungenerated
    /\ Generated
    /\ Sourced
    /\ Shaped
    /\ Rounds
    /\ WorkIsBounded
    /\ WebIsLastResort
    /\ OnlyGradedBelowTheCap
    /\ CitationsWereInThePrompt
    /\ StreamMatchesAnswer

\* The run starts as the invariant says.
LEMMA InitRag == Init => RagInv
<1>1. Init => grounding \in Scores
  BY DEF Init, Scores
<1>2. Init => retries \in 0 .. maxRetries /\ supersteps \in 0 .. RecursionLimit
  BY RagAssumption DEF Init
<1>3. Init => TypeOK
  BY <1>1, <1>2 DEF Init, TypeOK, Texts, Pending
<1> QED
  BY <1>3
  DEF Init, RagInv, Ungenerated, Generated, Sourced, Shaped, Rounds, WorkIsBounded, WebIsLastResort,
      OnlyGradedBelowTheCap, CitationsWereInThePrompt, StreamMatchesAnswer, Pending, Raised, Over

\* Every node leaves the state to the next one as the invariant says.
LEMMA StepRag == ASSUME RagInv, Step PROVE RagInv'
<1> USE RagAssumption
    DEF RagInv, TypeOK, Ungenerated, Generated, Sourced, Shaped, Rounds, WorkIsBounded,
        WebIsLastResort, OnlyGradedBelowTheCap, CitationsWereInThePrompt, StreamMatchesAnswer,
        Run, state, ghost, Pending, Raised, Over, Texts, Strip
<1>1. CASE Retrieve
  BY <1>1 DEF Retrieve, UpTo
<1>2. CASE GradeNothing
  <2>1. supersteps' \in 0 .. RecursionLimit
    BY <1>2 DEF GradeNothing
  <2>2. Decide(FALSE) \in {"rewrite", "web", "generate"}
    BY DEF Decide
  <2>3. TypeOK'
    BY <1>2, <2>1, <2>2 DEF GradeNothing
  <2> QED
    BY <1>2, <2>3 DEF GradeNothing, Decide
<1>3. ASSUME NEW reply \in Replies, Grade(reply)
      PROVE  RagInv'
  BY <1>3 DEF Grade, Kept, Decide
<1>4. CASE Rewrite
  BY <1>4 DEF Rewrite
<1>5. CASE WebSearch
  BY <1>5 DEF WebSearch, UpTo
<1>6. CASE GenerateNothing
  BY <1>6 DEF GenerateNothing
<1>7. CASE Generate
  <2>1. supersteps' \in 0 .. RecursionLimit
    BY <1>7 DEF Generate
  <2>2. TypeOK'
    BY <1>7, <2>1 DEF Generate
  <2>3. Generated'
    BY <1>7 DEF Generate
  <2>4. WorkIsBounded' /\ OnlyGradedBelowTheCap' /\ WebIsLastResort'
    BY <1>7 DEF Generate
  <2> QED
    BY <1>7, <2>2, <2>3, <2>4 DEF Generate
<1>8. CASE Verify
  <2>1. grounding' \in Scores
    BY <1>8 DEF Verify, ParseGrounding, Scores
  <2>2. documents = {} \/ generation = "insufficient" => grounding' = None
    BY <1>8 DEF Verify
  <2>3. /\ Run("verify", "end")
        /\ UNCHANGED <<question, documents, relevant, webUsed, generation, retries, ghost>>
    BY <1>8 DEF Verify
  <2> QED
    BY <2>1, <2>2, <2>3
<1>9. CASE Shape
  BY <1>9 DEF Shape, Results
<1> QED
  BY <1>1, <1>2, <1>3, <1>4, <1>5, <1>6, <1>7, <1>8, <1>9 DEF Step

\* So does the end of LangGraph's patience, which the cap must be too high for.
LEMMA OutOfStepsRag == ASSUME RagInv, OutOfSteps PROVE RagInv'
<1> USE RagAssumption DEF RagInv, TypeOK, Ungenerated, Generated, Sourced, Shaped, Over, state, ghost
<1>1. node \in {"retrieve", "grade", "rewrite", "web", "generate", "verify"}
  BY DEF OutOfSteps
<1>2. supersteps <= 3 * retries + 4
  BY <1>1 DEF Rounds
<1>3. RecursionLimit < 3 * maxRetries + 5
  BY <1>2 DEF OutOfSteps
<1>4. Rounds' /\ WorkIsBounded'
  BY <1>3 DEF OutOfSteps, Rounds, WorkIsBounded
<1>5. WebIsLastResort' /\ OnlyGradedBelowTheCap'
  BY DEF OutOfSteps, WebIsLastResort, OnlyGradedBelowTheCap
<1> QED
  BY <1>1, <1>4, <1>5
  DEF OutOfSteps, CitationsWereInThePrompt, StreamMatchesAnswer, Pending, Raised

\* So does an error, whichever call raised it.
LEMMA RaiseRag == ASSUME RagInv, Raise PROVE RagInv'
  BY DEF RagInv, TypeOK, Ungenerated, Generated, Sourced, Shaped, Rounds, WorkIsBounded,
         WebIsLastResort, OnlyGradedBelowTheCap, CitationsWereInThePrompt, StreamMatchesAnswer,
         Raise, state, Pending, Raised, Over

\* Every step of a run preserves the invariant.
LEMMA NextRag == RagInv /\ [Next]_vars => RagInv'
<1>1. ASSUME RagInv, UNCHANGED vars PROVE RagInv'
  <2> USE <1>1 DEF vars, state, ghost
  <2>1. TypeOK' BY DEF RagInv, TypeOK
  <2>2. Ungenerated' /\ Generated' BY DEF RagInv, Ungenerated, Generated
  <2>3. Sourced' /\ Shaped' BY DEF RagInv, Sourced, Shaped
  <2>4. Rounds' /\ WorkIsBounded' BY DEF RagInv, Rounds, WorkIsBounded
  <2>5. /\ WebIsLastResort' /\ OnlyGradedBelowTheCap'
        /\ CitationsWereInThePrompt' /\ StreamMatchesAnswer'
    BY DEF RagInv, WebIsLastResort, OnlyGradedBelowTheCap, CitationsWereInThePrompt,
           StreamMatchesAnswer
  <2> QED BY <2>1, <2>2, <2>3, <2>4, <2>5 DEF RagInv
<1> QED BY <1>1, StepRag, RaiseRag, OutOfStepsRag DEF Next

\* The invariant of a run.
THEOREM RagInvariance == Spec => []RagInv
<1> QED BY InitRag, NextRag, PTL DEF Spec

\* What is cited was in the prompt the answer was generated from.
THEOREM AnswersAreSourced == Spec => []CitationsWereInThePrompt
<1>1. RagInv => CitationsWereInThePrompt
  BY DEF RagInv
<1> QED BY <1>1, RagInvariance, PTL

\* The web is asked last and not mixed in, and nothing ungraded is answered from early.
THEOREM DegradationIsOrdered == Spec => []DegradesInOrder
<1>1. RagInv => DegradesInOrder
  BY DEF RagInv, DegradesInOrder
<1> QED BY <1>1, RagInvariance, PTL

\* Each round costs three nodes, so LangGraph's limit ends only a run whose cap is too
\* high for it.
THEOREM RunsAreShort == Spec => [](TypeOK /\ WorkIsBounded)
<1>1. RagInv => TypeOK /\ WorkIsBounded
  BY DEF RagInv
<1> QED BY <1>1, RagInvariance, PTL

\* The streaming endpoint has sent the words of the answer, and outer blanks at most.
THEOREM StreamsMatch == Spec => []StreamMatchesAnswer
<1>1. RagInv => StreamMatchesAnswer
  BY DEF RagInv
<1> QED BY <1>1, RagInvariance, PTL

\* Grading only drops documents, and what is generated from is what is verified and
\* cited: no later node touches them.
THEOREM DocumentsStaySettled == Spec => DocumentsSettle
<1> DEFINE Settles == /\ node = "grade" => documents' \subseteq documents
                      /\ node \in {"rewrite", "generate", "verify", "end"} => documents' = documents
<1>1. ASSUME Next PROVE Settles
  <2>1. CASE Retrieve \/ WebSearch
    BY <2>1 DEF Retrieve, WebSearch, Run
  <2>2. ASSUME NEW reply \in Replies, Grade(reply) PROVE Settles
    BY <2>2 DEF Grade, Kept, Run
  <2>3. CASE GradeNothing \/ Rewrite \/ GenerateNothing \/ Generate \/ Verify
    BY <2>3 DEF GradeNothing, Rewrite, GenerateNothing, Generate, Verify
  <2>4. CASE Shape \/ Raise \/ OutOfSteps
    BY <2>4 DEF Shape, Raise, OutOfSteps, state
  <2> QED BY <1>1, <2>1, <2>2, <2>3, <2>4 DEF Next, Step
<1>2. [Next]_vars => [Settles]_vars
  BY <1>1
<1> QED BY <1>2, PTL DEF Spec, DocumentsSettle

\* A run is one atomic step of the contract: an answer or an error.
THEOREM RunImplementsContract == Spec => ImplementsContract
<1>1. Init => Contract!Init
  BY DEF Init, Pending, Contract!Init
<1>2. ASSUME RagInv, [Next]_vars
      PROVE  [Contract!Next]_<<maxRetries, result>>
  <2>1. CASE Shape
    <3>1. /\ result.status = "pending" /\ result'.status = "answered"
          /\ result'.answer = generation /\ result'.grounding = grounding
          /\ result'.citations = IF generation = "insufficient" THEN {} ELSE documents
          /\ result'.usedWeb = webUsed /\ result'.selfCorrected = (retries > 0)
          /\ UNCHANGED maxRetries
      BY <1>2, <2>1 DEF Shape, RagInv, Shaped, Over, Pending
    <3>2. generation = "insufficient" => Contract!Insufficient
      BY <1>2, <2>1, <3>1 DEF Shape, RagInv, Generated, Contract!Insufficient
    <3>3. generation # "insufficient" => Contract!Cited
      BY <1>2, <2>1, <3>1
      DEF Shape, RagInv, TypeOK, Generated, Sourced, WebIsLastResort, Contract!Cited
    <3>4. webUsed => retries = maxRetries
      BY <1>2 DEF RagInv, WebIsLastResort
    <3> QED
      BY <3>1, <3>2, <3>3, <3>4 DEF Contract!Next, Contract!Answer
  <2>2. CASE Raise \/ OutOfSteps
    <3>1. result.status = "pending" /\ result' = [status |-> "raised"] /\ UNCHANGED maxRetries
      BY <1>2, <2>2 DEF Raise, OutOfSteps, RagInv, Shaped, Over, Pending, Raised
    <3> QED BY <3>1 DEF Contract!Next, Contract!Raise
  <2>3. ASSUME Step, ~Shape
        PROVE  UNCHANGED <<maxRetries, result>>
    BY <2>3
    DEF Step, Run, Retrieve, GradeNothing, Grade, Rewrite, WebSearch, GenerateNothing,
        Generate, Verify
  <2> QED
    BY <1>2, <2>1, <2>2, <2>3 DEF Next, vars
<1>3. RagInv /\ [Next]_vars => [Contract!Next]_<<maxRetries, result>>
  BY <1>2
<1> QED BY <1>1, <1>3, RagInvariance, PTL DEF Spec, ImplementsContract, Contract!Spec
=============================================================================
