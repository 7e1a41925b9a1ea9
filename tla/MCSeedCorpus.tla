---------------------------- MODULE MCSeedCorpus ----------------------------
(* Instances of SeedCorpus for TLC: any mix of the three programs.           *)
EXTENDS SeedCorpus, TLC

\* Sound: processes are compared for equality only.
Symmetry == Permutations(Procs)
=============================================================================
