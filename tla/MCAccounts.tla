------------------------------ MODULE MCAccounts ------------------------------
(* Instances of Accounts for TLC.                                            *)
EXTENDS Accounts, TLC

\* Sound: requests, e-mails and keys are compared for equality only.
Symmetry == Permutations(Requests) \cup Permutations(Emails) \cup Permutations(Keys)
=============================================================================
