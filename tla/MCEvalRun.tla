------------------------------ MODULE MCEvalRun ------------------------------
(* Instances of EvalRun for TLC.                                             *)
EXTENDS EvalRun

\* The defaults of config.py, and settings that differ from every preset.
StartSettings ==
    {[mode |-> "hybrid", rerank |-> TRUE, retries |-> 2],
     [mode |-> "sparse", rerank |-> FALSE, retries |-> 1]}

\* Sound: chunks are compared for equality only.
Symmetry == Permutations(Chunks)
=============================================================================
