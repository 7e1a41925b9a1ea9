-------------------------- MODULE MCRequestPipeline --------------------------
(* Instances of RequestPipeline for TLC.                                     *)
EXTENDS RequestPipeline, TLC

\* Sound: requests and callers are compared for equality only.
Symmetry == Permutations(Requests) \cup Permutations(Callers)
=============================================================================
