----------------------------- MODULE MCIngestion -----------------------------
(* Instances of Ingestion for TLC; each .cfg picks the sizes and bounds.     *)
EXTENDS Ingestion, TLC

\* Sound for the safety runs: no identifier is compared but for equality.
Symmetry ==
    Permutations(Documents) \cup Permutations(Jobs)
        \cup Permutations(Workers) \cup Permutations(Batches)
=============================================================================
