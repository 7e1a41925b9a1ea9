----------------------------- MODULE MCQueryApi -----------------------------
(* Instances of QueryApi for TLC; each .cfg picks the sizes and bounds.      *)
EXTENDS QueryApi

\* Sound for the safety runs: no identifier is compared but for equality.
Symmetry == Permutations(Requests) \cup Permutations(Users)
=============================================================================
