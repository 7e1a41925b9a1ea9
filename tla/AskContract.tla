----------------------------- MODULE AskContract -----------------------------
(***************************************************************************)
(* What POST /query and POST /query/stream promise of one question: it is  *)
(* answered once, or fails.  An answer either says that the sources do not *)
(* cover the question, and then has no citation and no grounding score, or *)
(* cites sources of one kind only: documents of the workspace, or, after   *)
(* the question was rewritten as often as the deployment allows, the web.  *)
(***************************************************************************)
EXTENDS Naturals

CONSTANTS
    Chunks, WebPages, None,
    MaxRetries,  \* bound on the caps considered
    Scores  \* grounding scores from 0 to 1, and None

VARIABLES
    maxRetries,  \* how often the deployment allows a question to be rewritten
    result

Init == maxRetries \in 0 .. MaxRetries /\ result = [status |-> "pending"]

Insufficient ==
    /\ result'.answer = "insufficient"
    /\ result'.citations = {}
    /\ result'.grounding = None

Cited ==
    /\ result'.answer # "insufficient"
    /\ result'.citations # {}
    /\ \E kind \in {Chunks, WebPages} : result'.citations \subseteq kind
    /\ result'.citations \cap WebPages # {} => result'.usedWeb
    /\ result'.grounding \in Scores

Answer ==
    /\ result.status = "pending" /\ result'.status = "answered"
    /\ Insufficient \/ Cited
    /\ result'.usedWeb => (result'.selfCorrected <=> maxRetries > 0)

Raise == result.status = "pending" /\ result' = [status |-> "raised"]

Next == (Answer \/ Raise) /\ UNCHANGED maxRetries

Spec == Init /\ [][Next]_<<maxRetries, result>>
=============================================================================
