--------------------------- MODULE MCCorrectiveRag ---------------------------
(* Instances of CorrectiveRag for TLC; each .cfg picks the sizes.            *)
EXTENDS CorrectiveRag, TLC

Symmetry == Permutations(Chunks) \cup Permutations(WebPages) \cup Permutations(Questions)
=============================================================================
